---------------------------- MODULE Spec2Model ----------------------------
(***************************************************************************)
(* Verification model of the echobox session engine: reconnection state,   *)
(* recorder, session manager, WebSocket bridge and the engine main task.   *)
(*                                                                         *)
(* Time is an integer clock `now`.  Bytes are small integers.  Every       *)
(* component keeps the field names of the Go source.                       *)
(***************************************************************************)
EXTENDS Integers, Sequences, FiniteSets, TLC

(***************************************************************************)
(* Bounds of the model.                                                    *)
(***************************************************************************)
\* last instant of the clock
MaxTime == 3
\* number of Connect calls and of Disconnect calls in a run of SpecSession
MaxConnects == 3
\* total number of bytes all UpdateTerminalBuffer calls of a run may append
MaxAppended == 5
\* longest chunk handed to UpdateTerminalBuffer by a direct caller
MaxChunk == 3
\* number of Record* calls in a run of SpecRecorder
MaxRecords == 3
\* longest line or payload of one Record* call
MaxRecLen == 2
\* last instant of the clock in a run of SpecRecorder
RecMaxTime == 1
\* number of WebSocket connections in a run
MaxConn == 2
\* calls of CanReconnect, and calls of the methods that take the write lock
MaxLockCalls == 2
\* number of chunks the outbound tasks read from the PTY in a run
MaxReads == 2
\* number of messages the inbound tasks read from the sockets in a run
MaxMsgs == 1
\* number of text frames the client sends, and of chunks the shell prints,
\* in a run of SpecOrder
MaxOrderChunks == 2
\* number of messages the client of SpecInbound sends
MaxInputs == 2
\* number of Complete calls in a run of SpecManager
MaxCompletes == 2
\* number of messages the client of SpecShutdown sends
MaxKeys == 2
\* number of Record* calls in a run of SpecClose
MaxCloseRecs == 2
\* number of PTY calls in a run of SpecPTY
MaxPtyCalls == 4
\* number of RecordOutput calls in a run of SpecOutput
MaxOutputs == 3
\* number of Record* calls in a run of SpecStamps
MaxStamped == 3
\* number of RateLimiter.CheckInput calls in a run of SpecRate
MaxRateCalls == 3
\* last instant of the clock in a run of SpecRate
RateMaxTime == 21
\* number of BurstDetector.CheckBurst calls in a run of SpecBurst
MaxBurstCalls == 4
\* last instant of the clock in a run of SpecBurst
BurstMaxTime == 6
\* number of chunks the client of SpecRun sends in quick succession
RunChunks == 10
\* number of keystroke lines of a run of SpecExtract, the typed command apart
MaxKeyLines == 2

(***************************************************************************)
(* Program constants (scaled where noted).                                 *)
(***************************************************************************)
\* RECONNECT_WINDOW, in clock ticks (configuration value)
ReconnectWindow == 2
\* maxBufferSize := 100 * 1024, scaled down to 2 bytes
maxBufferSize == 2
\* size of a bufio.Writer buffer (4 KiB), scaled down to 3 bytes
bufioSize == 3
\* the longest chunk the page sends as typed input (data.length > 20 blocks)
pasteLimit == 20
\* RateLimiter.windowSize = time.Second, in ticks
windowSize == 20
\* BurstDetector.burstWindow = 100 ms, in ticks
burstWindow == 2
\* the 50 ms threshold of the fast multi-char check, in ticks
anomalyWindow == 1
\* BurstDetector.maxCharsInBurst
maxCharsInBurst == 30
\* RateLimiter.MaxCharsPerSecond (INPUT_RATE_LIMIT, default 30)
MaxCharsPerSecond == 30
\* time.Time{}: the zero instant, far before the start of the clock
ZeroTime == -100
\* bufio.MaxScanTokenSize = 64 * 1024, scaled down to 12 bytes
MaxScanTokenSize == 12

\* one ASCII byte, one UTF-8 lead byte (0xC3), one continuation byte (0xA9)
Byte == {97, 195, 169}

\* uuid.New().String(): the stored token; the other values are what a
\* client may present instead (a wrong token, no token)
ReconnectToken == "tok"
Tokens == {"tok", "bad", ""}

StateActive == "active"
StateDisconnected == "disconnected"
StateExpired == "expired"

VARIABLES
    now,                 \* time.Now()
    State,               \* SessionState.State
    LastConnectTime,     \* SessionState.LastConnectTime
    LastDisconnectTime,  \* SessionState.LastDisconnectTime
    ConnectionCount,     \* SessionState.ConnectionCount
    DisconnectCount,     \* SessionState.DisconnectCount
    TerminalBuffer,      \* SessionState.TerminalBuffer
    appended,            \* history: every byte passed to UpdateTerminalBuffer
    lastData,            \* history: the last chunk passed to UpdateTerminalBuffer
    mu,                  \* SessionState.mu
    calls,               \* the SessionState method calls that are inside mu
    rec,                 \* the Recorder: its fields, and the history of its calls
    diskOk,              \* writes to the files succeed (FALSE: disk full)
    TerminalSize,        \* SessionState.TerminalSize
    det,                 \* the anti-cheat Detector
    pty,                 \* the PTY, and the history of the writes to it
    conns,               \* the WebSocket connections WSHandler.Handle serves
    received,            \* history: the messages the inbound path processed
    budget,              \* what the clients and the shell may still do in this run
    finishSignal,        \* WSHandler.finishSignal: number of buffered signals
    shutdown,            \* WSHandler.shutdown is closed
    req,                 \* the GET /reconnect request being served
    resp,                \* history: the last answer of GET /reconnect
    engine,              \* main: its position, its path, the pending OS signal
    mgr                  \* the session Manager: Session fields and the files

lockVars == <<mu, calls>>

sessVars == <<State, LastConnectTime, LastDisconnectTime, ConnectionCount,
              DisconnectCount, TerminalBuffer, appended, lastData, lockVars>>

recVars == <<rec, diskOk>>

brVars == <<TerminalSize, det, pty, conns, received, budget, finishSignal,
            shutdown>>

webVars == <<req, resp>>

engVars == <<engine, mgr>>

appVars == <<brVars, webVars, engVars>>

vars == <<now, sessVars, recVars, appVars>>

Min(a, b) == IF a < b THEN a ELSE b

\* the last n elements of s
LastN(s, n) == SubSeq(s, Len(s) - n + 1, Len(s))

\* all sequences over S of length 1..n
SeqsUpTo(S, n) == UNION {[1..k -> S] : k \in 1..n}

(***************************************************************************)
(* SessionState                                                            *)
(***************************************************************************)
\* sync.RWMutex: the number of read locks held, and the writer: "none",
\* "pending" (Lock was called and waits for the readers to leave) or "held"
NewMutex == [readerCount |-> 0, writer |-> "none"]

\* RLock returns only while no writer holds the lock or waits for it
RLockReady(m) == m.writer = "none"

RLock(m) == [m EXCEPT !.readerCount = @ + 1]

RUnlock(m) == [m EXCEPT !.readerCount = @ - 1]

\* Lock announces the writer, then waits until every read lock is released
LockPending(m) == [m EXCEPT !.writer = "pending"]

LockReady(m) == m.writer = "pending" /\ m.readerCount = 0

Lock(m) == [m EXCEPT !.writer = "held"]

Unlock(m) == [m EXCEPT !.writer = "none"]

\* no method call is in progress
NoCalls ==
    [can |-> [pc |-> "idle", token |-> "", result |-> FALSE],
     wr |-> [pc |-> "idle", method |-> "", data |-> <<>>]]

NewSessionState ==
    /\ mu = NewMutex
    /\ calls = NoCalls
    /\ State = StateActive
    /\ LastConnectTime = 0
    /\ LastDisconnectTime = ZeroTime
    /\ ConnectionCount = 1
    /\ DisconnectCount = 0
    /\ TerminalBuffer = <<>>
    /\ appended = <<>>
    /\ lastData = <<>>

Connect ==
    /\ State' = StateActive
    /\ LastConnectTime' = now
    /\ ConnectionCount' = ConnectionCount + 1
    /\ UNCHANGED <<LastDisconnectTime, DisconnectCount, TerminalBuffer, appended,
                   lastData>>

DisconnectMutNoStamp ==
    /\ State' = StateDisconnected
    /\ DisconnectCount' = DisconnectCount + 1
    /\ UNCHANGED <<LastConnectTime, LastDisconnectTime, ConnectionCount,
                   TerminalBuffer, appended, lastData>>

Disconnect ==
    /\ State' = StateDisconnected
    /\ LastDisconnectTime' = now
    /\ DisconnectCount' = DisconnectCount + 1
    /\ UNCHANGED <<LastConnectTime, ConnectionCount, TerminalBuffer, appended,
                   lastData>>

IsExpiredMutGE ==
    \/ State = StateExpired
    \/ /\ State = StateDisconnected
       /\ now - LastDisconnectTime >= ReconnectWindow

IsExpired ==
    \/ State = StateExpired
    \/ /\ State = StateDisconnected
       /\ now - LastDisconnectTime > ReconnectWindow

CanReconnect(token) ==
    IF ReconnectToken # token THEN FALSE
    ELSE IF IsExpired THEN FALSE
    ELSE State = StateDisconnected

MarkExpired ==
    /\ State' = StateExpired
    /\ UNCHANGED <<LastConnectTime, LastDisconnectTime, ConnectionCount,
                   DisconnectCount, TerminalBuffer, appended, lastData>>

GetState == State

TrimmedMutHead(buf) ==
    IF Len(buf) > maxBufferSize THEN SubSeq(buf, 1, maxBufferSize) ELSE buf

\* the trim of UpdateTerminalBuffer: keep the most recent maxBufferSize bytes
Trimmed(buf) ==
    IF Len(buf) > maxBufferSize
    THEN SubSeq(buf, Len(buf) - maxBufferSize + 1, Len(buf))
    ELSE buf

UpdateTerminalBuffer(data) ==
    /\ TerminalBuffer' = Trimmed(TerminalBuffer \o data)
    /\ appended' = appended \o data
    /\ lastData' = data
    /\ UNCHANGED <<State, LastConnectTime, LastDisconnectTime, ConnectionCount,
                   DisconnectCount>>

GetTerminalBuffer == TerminalBuffer

\* the clock advances
Tick ==
    /\ now < MaxTime
    /\ now' = now + 1

(***************************************************************************)
(* Recorder                                                                *)
(***************************************************************************)
Streams == {"keystrokes", "terminal", "timing", "websocket", "events"}

\* number of occurrences of x in the sequence s
Count(s, x) == Cardinality({i \in 1..Len(s) : s[i] = x})

\* bufio.Writer.Flush on w = [buf, err, file]; ok: the file accepts the write
BufioFlush(w, ok) ==
    IF w.err THEN w
    ELSE IF Len(w.buf) = 0 THEN w
    ELSE IF ok THEN [buf |-> <<>>, err |-> FALSE, file |-> w.file \o w.buf]
    ELSE [w EXCEPT !.err = TRUE]

\* bufio.Writer.Write(p) on w = [buf, err, file]: the writer after the call,
\* the count of bytes taken and whether an error is returned
RECURSIVE BufioWrite(_, _, _)
BufioWrite(w, p, ok) ==
    IF w.err THEN [w |-> w, nn |-> 0, err |-> TRUE]
    ELSE IF Len(p) > bufioSize - Len(w.buf)
    THEN IF Len(w.buf) = 0
         THEN \* large write, empty buffer: straight to the file
              IF ok
              THEN [w |-> [w EXCEPT !.file = @ \o p], nn |-> Len(p), err |-> FALSE]
              ELSE [w |-> [w EXCEPT !.err = TRUE], nn |-> 0, err |-> TRUE]
         ELSE LET avail == bufioSize - Len(w.buf)
                  w1 == BufioFlush([w EXCEPT !.buf = @ \o SubSeq(p, 1, avail)], ok)
              IN  IF w1.err
                  THEN [w |-> w1, nn |-> avail, err |-> TRUE]
                  ELSE LET r == BufioWrite(w1, SubSeq(p, avail + 1, Len(p)), ok)
                       IN  [r EXCEPT !.nn = @ + avail]
    ELSE [w |-> [w EXCEPT !.buf = @ \o p], nn |-> Len(p), err |-> FALSE]

\* the Recorder after NewRecorder
NewRecorder ==
    [closed |-> FALSE,
     closePc |-> "open",
     writer |-> [s \in Streams |-> [buf |-> <<>>, err |-> FALSE]],
     file |-> [s \in Streams |-> <<>>],
     fileOpen |-> [s \in Streams |-> TRUE],
     fileMode |-> [s \in Streams |-> "0600"],
     lastOutputTime |-> 0,
     tickerStopped |-> FALSE,
     tickPending |-> FALSE,
     flushDone |-> FALSE,
     flushLoopPc |-> "run",
     closeRuns |-> 0,
     keepStamps |-> FALSE,
     stamps |-> [s \in Streams |-> <<>>],
     recs |-> <<>>,
     ret |-> [op |-> "none", err |-> FALSE]]

\* the bufio.Writer of stream s of recorder r together with the file under it
W(r, s) == [buf |-> r.writer[s].buf, err |-> r.writer[s].err, file |-> r.file[s]]

\* a line (or payload) of n bytes belonging to Record* call number id
Line(id, n) == [i \in 1..n |-> id]

\* the event type and description of a record that is not an event
NoTag == [type |-> "", desc |-> ""]

\* what a Record* call returns on a closed recorder
RecordClosed(r, op, tag, n, t) ==
    [r EXCEPT !.ret = [op |-> op, err |-> TRUE],
              !.recs = Append(@, [op |-> op, tag |-> tag, len |-> n, err |-> TRUE])]

RecordLineMutNegStamp(r, op, tag, s, n, t, ok) ==
    IF r.closed THEN RecordClosed(r, op, tag, n, t)
    ELSE LET w == BufioWrite(W(r, s), Line(Len(r.recs) + 1, n), ok)
         IN  [r EXCEPT !.writer[s] = [buf |-> w.w.buf, err |-> w.w.err],
                       !.file[s] = w.w.file,
                       !.stamps[s] = IF r.keepStamps /\ ~w.err
                                     THEN Append(@, 0 - t) ELSE @,
                       !.ret = [op |-> op, err |-> w.err],
                       !.recs = Append(@, [op |-> op, tag |-> tag, len |-> n,
                                           err |-> w.err])]

\* a Record* call at time t that writes one line of n bytes to stream s; the
\* line starts with its timestamp t, which stamps[s] keeps when keepStamps
RecordLine(r, op, tag, s, n, t, ok) ==
    IF r.closed THEN RecordClosed(r, op, tag, n, t)
    ELSE LET w == BufioWrite(W(r, s), Line(Len(r.recs) + 1, n), ok)
         IN  [r EXCEPT !.writer[s] = [buf |-> w.w.buf, err |-> w.w.err],
                       !.file[s] = w.w.file,
                       !.stamps[s] = IF r.keepStamps /\ ~w.err
                                     THEN Append(@, t) ELSE @,
                       !.ret = [op |-> op, err |-> w.err],
                       !.recs = Append(@, [op |-> op, tag |-> tag, len |-> n,
                                           err |-> w.err])]

RecordInput(r, n, t, ok) == RecordLine(r, "input", NoTag, "keystrokes", n, t, ok)

RecordWebSocketMessage(r, n, t, ok) ==
    RecordLine(r, "websocket", NoTag, "websocket", n, t, ok)

\* RecordEvent(eventType, description): one line of n bytes in events.log
RecordEvent(r, eventType, description, n, t, ok) ==
    RecordLine(r, "event", [type |-> eventType, desc |-> description], "events",
               n, t, ok)

\* RecordOutput(data), len(data) = n: one timing line, then the payload
RecordOutput(r, n, t, ok) ==
    IF r.closed THEN RecordClosed(r, "output", NoTag, n, t)
    ELSE LET id == Len(r.recs) + 1
             tm == BufioWrite(W(r, "timing"), Line(id, 1), ok)
             d == BufioWrite(W(r, "terminal"), Line(id, n), ok)
             e == tm.err \/ d.err
         IN  [r EXCEPT
                 !.lastOutputTime = t,
                 !.writer["timing"] = [buf |-> tm.w.buf, err |-> tm.w.err],
                 !.file["timing"] = tm.w.file,
                 !.writer["terminal"] = IF tm.err THEN @
                                        ELSE [buf |-> d.w.buf, err |-> d.w.err],
                 !.file["terminal"] = IF tm.err THEN @ ELSE d.w.file,
                 !.ret = [op |-> "output", err |-> e],
                 !.recs = Append(@, [op |-> "output", tag |-> NoTag, len |-> n,
                                     err |-> e])]

\* Recorder.Flush on an open recorder: the five bufio Flush calls
FlushOpen(r, ok) ==
    LET f == [s \in Streams |-> BufioFlush(W(r, s), ok)]
    IN  [r EXCEPT !.writer = [s \in Streams |-> [buf |-> f[s].buf, err |-> f[s].err]],
                  !.file = [s \in Streams |-> f[s].file],
                  !.ret = [op |-> "flush", err |-> \E s \in Streams : f[s].err]]

\* Recorder.Flush: a closed recorder returns nil at once
Flush(r, ok) ==
    IF r.closed THEN [r EXCEPT !.ret = [op |-> "flush", err |-> FALSE]]
    ELSE FlushOpen(r, ok)

CloseBeginMutNoCheck(r) ==
    [r EXCEPT !.closed = TRUE, !.closePc = "closing", !.closeRuns = @ + 1]

\* Recorder.Close up to the release of the mutex; closeRuns counts the calls
\* that go on to the close sequence
CloseBegin(r) ==
    IF r.closed THEN [r EXCEPT !.ret = [op |-> "close", err |-> FALSE]]
    ELSE [r EXCEPT !.closed = TRUE, !.closePc = "closing", !.closeRuns = @ + 1]

CloseFinishMutNoChmod(r, ok) ==
    LET f == Flush([r EXCEPT !.tickerStopped = TRUE, !.flushDone = TRUE], ok)
    IN  [f EXCEPT !.closePc = "closed",
                  !.fileOpen = [s \in Streams |-> FALSE],
                  !.ret = [op |-> "close", err |-> FALSE]]

\* Recorder.Close after the mutex: stop the ticker, close flushDone, the
\* final Flush, close the files, chmod 0400
CloseFinish(r, ok) ==
    LET f == Flush([r EXCEPT !.tickerStopped = TRUE, !.flushDone = TRUE], ok)
    IN  [f EXCEPT !.closePc = "closed",
                  !.fileOpen = [s \in Streams |-> FALSE],
                  !.fileMode = [s \in Streams |-> "0400"],
                  !.ret = [op |-> "close", err |-> FALSE]]

\* flushLoop: case <-r.flushTicker.C
FlushLoopTick(r, ok) == Flush([r EXCEPT !.tickPending = FALSE], ok)

(***************************************************************************)
(* Rate/burst meters and the anti-cheat Detector.  One clock tick is 50 ms. *)
(***************************************************************************)
\* the sum of the Length fields of a sequence of InputEvents
RECURSIVE SumLen(_)
SumLen(es) == IF es = <<>> THEN 0 ELSE es[1].Length + SumLen(Tail(es))

\* the events of es whose Timestamp is after cutoff, in order
RECURSIVE ValidEvents(_, _)
ValidEvents(es, cutoff) ==
    IF es = <<>> THEN <<>>
    ELSE IF es[1].Timestamp > cutoff
         THEN <<es[1]>> \o ValidEvents(Tail(es), cutoff)
         ELSE ValidEvents(Tail(es), cutoff)

\* (variant: the cutoff is one tick too early, so an event exactly one
\* window old is still counted)
RateCheckInputMutLate(es, length, t) ==
    LET cutoff == t - windowSize - 1
        valid == ValidEvents(Append(es, [Timestamp |-> t, Length |-> length]),
                             cutoff)
        currentRate == SumLen(valid)
    IN  [events |-> valid, allowed |-> TRUE, currentRate |-> currentRate,
         violation |-> currentRate > MaxCharsPerSecond]

\* RateLimiter.CheckInput(length) at time t on the event list es:
\* the retained events, currentRate and violation (allowed is always true)
RateCheckInput(es, length, t) ==
    LET cutoff == t - windowSize
        valid == ValidEvents(Append(es, [Timestamp |-> t, Length |-> length]),
                             cutoff)
        currentRate == SumLen(valid)
    IN  [events |-> valid, allowed |-> TRUE, currentRate |-> currentRate,
         violation |-> currentRate > MaxCharsPerSecond]

\* (variant: an admission exactly one window after the previous one starts
\* a new burst)
CheckBurstMutGE(b, length, t) ==
    IF b.lastInput = ZeroTime \/ t - b.lastInput >= burstWindow
    THEN [b |-> [burstChars |-> length, lastInput |-> t],
          isBurst |-> FALSE, burstSize |-> length]
    ELSE [b |-> [burstChars |-> b.burstChars + length, lastInput |-> t],
          isBurst |-> b.burstChars + length > maxCharsInBurst,
          burstSize |-> b.burstChars + length]

\* BurstDetector.CheckBurst(length) at time t on b = [burstChars, lastInput]
CheckBurst(b, length, t) ==
    IF b.lastInput = ZeroTime \/ t - b.lastInput > burstWindow
    THEN [b |-> [burstChars |-> length, lastInput |-> t],
          isBurst |-> FALSE, burstSize |-> length]
    ELSE [b |-> [burstChars |-> b.burstChars + length, lastInput |-> t],
          isBurst |-> b.burstChars + length > maxCharsInBurst,
          burstSize |-> b.burstChars + length]

\* the Detector after NewDetector at time 0
NewDetector ==
    [events |-> <<>>,
     burst |-> [burstChars |-> 0, lastInput |-> ZeroTime],
     keystrokeCount |-> 0,
     lastKeystroke |-> 0,
     log |-> <<>>]

\* (variant: a chunk exactly 50 ms after the previous one is an anomaly too)
CheckInputMutAnomalyLE(d, length, t) ==
    LET timeSinceLastKey == t - d.lastKeystroke
        r == RateCheckInput(d.events, length, t)
        b == CheckBurst(d.burst, length, t)
        v1 == IF r.violation
              THEN <<[Severity |-> "warning", Type |-> "rapid_input"]>> ELSE <<>>
        v2 == IF b.isBurst
              THEN <<[Severity |-> "critical", Type |-> "paste_attempt"]>> ELSE <<>>
        v3 == IF length > 1 /\ timeSinceLastKey <= anomalyWindow
              THEN <<[Severity |-> "warning", Type |-> "typing_anomaly"]>> ELSE <<>>
        violations == v1 \o v2 \o v3
    IN  [d |-> [events |-> r.events,
                burst |-> b.b,
                keystrokeCount |-> d.keystrokeCount + length,
                lastKeystroke |-> t,
                log |-> d.log \o violations],
         allowed |-> r.allowed,
         violations |-> violations]

\* Detector.CheckInput(data), len(data) = length, at time t:
\* the detector after the call, allowed, and the violations in order
CheckInput(d, length, t) ==
    LET timeSinceLastKey == t - d.lastKeystroke
        r == RateCheckInput(d.events, length, t)
        b == CheckBurst(d.burst, length, t)
        v1 == IF r.violation
              THEN <<[Severity |-> "warning", Type |-> "rapid_input"]>> ELSE <<>>
        v2 == IF b.isBurst
              THEN <<[Severity |-> "critical", Type |-> "paste_attempt"]>> ELSE <<>>
        v3 == IF length > 1 /\ timeSinceLastKey < anomalyWindow
              THEN <<[Severity |-> "warning", Type |-> "typing_anomaly"]>> ELSE <<>>
        violations == v1 \o v2 \o v3
    IN  [d |-> [events |-> r.events,
                burst |-> b.b,
                keystrokeCount |-> d.keystrokeCount + length,
                lastKeystroke |-> t,
                log |-> d.log \o violations],
         allowed |-> r.allowed,
         violations |-> violations]

\* the severity RecordClientEvent gives a client report
ClientSeverity(eventType) ==
    CASE eventType = "paste_attempt" -> "critical"
      [] eventType = "rapid_input" -> "warning"
      [] OTHER -> "info"

\* Detector.RecordClientEvent(eventType, data)
RecordClientEvent(d, eventType) ==
    [d EXCEPT !.log = Append(@, [Severity |-> ClientSeverity(eventType),
                                 Type |-> eventType])]

(***************************************************************************)
(* PTY                                                                     *)
(***************************************************************************)
\* the PTY after terminal.New: fdCloses counts p.file.Close(), kills counts
\* p.cmd.Process.Kill(), calls are the calls past their locked part, rets
\* what the calls returned
NewPTY ==
    [closed |-> FALSE,
     shellExited |-> FALSE,
     size |-> [Cols |-> 0, Rows |-> 0],
     written |-> <<>>,
     fdCloses |-> 0,
     kills |-> 0,
     calls |-> <<>>,
     rets |-> <<>>]

\* a call of op returns n and err; late: it started on a closed PTY,
\* touched: it used the file descriptor
PtyRet(p, op, late, n, err, touched) ==
    [p EXCEPT !.rets = Append(@, [op |-> op, late |-> late, n |-> n, err |-> err,
                                  touched |-> touched])]

PtyLockedMutNoCheck(p, op, size) ==
    CASE op \in {"read", "write"} ->
            [p EXCEPT !.calls = Append(@, [op |-> op, pc |-> "io", late |-> p.closed])]
      [] op = "resize" ->
            PtyRet([p EXCEPT !.size = size], op, p.closed, 0, "nil", TRUE)
      [] op = "close" ->
            [p EXCEPT !.closed = TRUE,
                      !.calls = Append(@, [op |-> op, pc |-> "io", late |-> p.closed])]

\* Read, Write, Resize and Close while they hold p.mu: the test of p.closed,
\* for Resize the whole call
PtyLocked(p, op, size) ==
    CASE op \in {"read", "write"} ->
            IF p.closed THEN PtyRet(p, op, TRUE, 0, "EOF", FALSE)
            ELSE [p EXCEPT !.calls = Append(@, [op |-> op, pc |-> "io",
                                                late |-> FALSE])]
      [] op = "resize" ->
            IF p.closed THEN PtyRet(p, op, TRUE, 0, "PTY is closed", FALSE)
            ELSE PtyRet([p EXCEPT !.size = size], op, FALSE, 0, "nil", TRUE)
      [] op = "close" ->
            IF p.closed THEN PtyRet(p, op, TRUE, 0, "nil", FALSE)
            ELSE [p EXCEPT !.closed = TRUE,
                           !.calls = Append(@, [op |-> op, pc |-> "io",
                                                late |-> FALSE])]

PtyUnlockedMutReadOn(p, i) ==
    LET k == p.calls[i]
        q == [p EXCEPT !.calls[i].pc = "done"]
    IN  CASE k.op = "close" ->
                PtyRet([q EXCEPT !.fdCloses = @ + 1, !.kills = @ + 1,
                                 !.shellExited = TRUE],
                       "close", k.late, 0, "nil", TRUE)
          [] k.op = "write" ->
                IF p.fdCloses > 0
                THEN PtyRet(q, "write", k.late, 0, "file already closed", TRUE)
                ELSE PtyRet([q EXCEPT !.written = Append(@, [len |-> 1, type |-> "text"])],
                            "write", k.late, 1, "nil", TRUE)
          [] k.op = "read" ->
                PtyRet(q, "read", k.late, 1, "nil", TRUE)

\* call i after it released p.mu: file.Read, file.Write, or file.Close and
\* Process.Kill; a read or write on a closed os.File fails
PtyUnlocked(p, i) ==
    LET k == p.calls[i]
        q == [p EXCEPT !.calls[i].pc = "done"]
    IN  CASE k.op = "close" ->
                PtyRet([q EXCEPT !.fdCloses = @ + 1, !.kills = @ + 1,
                                 !.shellExited = TRUE],
                       "close", k.late, 0, "nil", TRUE)
          [] k.op = "write" ->
                IF p.fdCloses > 0
                THEN PtyRet(q, "write", k.late, 0, "file already closed", TRUE)
                ELSE PtyRet([q EXCEPT !.written = Append(@, [len |-> 1, type |-> "text"])],
                            "write", k.late, 1, "nil", TRUE)
          [] k.op = "read" ->
                IF p.fdCloses > 0
                THEN PtyRet(q, "read", k.late, 0, "file already closed", TRUE)
                ELSE IF p.shellExited
                     THEN PtyRet(q, "read", k.late, 0, "EIO", TRUE)
                     ELSE PtyRet(q, "read", k.late, 1, "nil", TRUE)

\* PTY.Write(data), len(data) = n, data sent in a frame of type msgType
PtyWrite(p, n, msgType) ==
    IF p.closed THEN [p |-> p, err |-> TRUE]
    ELSE [p |-> [p EXCEPT !.written = Append(@, [len |-> n, type |-> msgType])],
          err |-> FALSE]

\* PTY.Read fails: the PTY is closed or the shell is gone
PtyReadFails(p) == p.closed \/ p.shellExited

\* PTY.Resize(cols, rows)
PtyResize(p, size) == IF p.closed THEN p ELSE [p EXCEPT !.size = size]

\* PTY.Close: closes the file and kills the shell; a second call does nothing
PtyClose(p) ==
    IF p.closed THEN p
    ELSE [p EXCEPT !.closed = TRUE, !.shellExited = TRUE, !.fdCloses = @ + 1,
                   !.kills = @ + 1]

(***************************************************************************)
(* WSHandler: the upgrade, the outbound task, the inbound task, the wait.  *)
(***************************************************************************)
NoMsg == [kind |-> "none", len |-> 0, event |-> "", size |-> [Cols |-> 0, Rows |-> 0]]

\* the state of one Handle call right after the upgrade; outErr and inpErr
\* are the error a task saw: "socket" for conn.ReadMessage and
\* conn.WriteMessage, "pty" for pty.Read and pty.Write; why is the error of
\* the task that closed done, closes the number of close(done) calls
NewConn ==
    [h |-> "wait", out |-> "read", inp |-> "read", done |-> FALSE, why |-> "",
     outErr |-> "", inpErr |-> "", closes |-> 0,
     sock |-> "open", buf |-> <<>>, msg |-> NoMsg]

\* a task that saw an error of kind w comes to
\* select { case <-done: default: close(done) }: with done closed it
\* returns, otherwise it takes the default case and is about to call close
SelectDone(k, task, w) ==
    IF task = "out"
    THEN [k EXCEPT !.out = IF k.done THEN "exit" ELSE "close", !.outErr = w]
    ELSE [k EXCEPT !.inp = IF k.done THEN "exit" ELSE "close", !.inpErr = w]

\* close(done) by a task in the default case, then its return
CloseDone(k, task) ==
    [k EXCEPT !.done = TRUE,
              !.why = IF k.done THEN @
                      ELSE IF task = "out" THEN k.outErr ELSE k.inpErr,
              !.closes = @ + 1,
              !.out = IF task = "out" THEN "exit" ELSE @,
              !.inp = IF task = "inp" THEN "exit" ELSE @]

\* close of a closed channel panics, and a panic in a goroutine ends the
\* process at once: no deferred call of main runs
Panic(e) == [e EXCEPT !.pc = "exited", !.path = "panic"]

\* SessionState.UpdateTerminalSize(cols, rows)
UpdateTerminalSize(size) == TerminalSize' = size

\* the process has not exited
Running == engine.pc # "exited"

\* Handle: the upgrade succeeds, Connect(), the two tasks start
HandleUpgrade ==
    /\ Running
    /\ ~shutdown
    /\ budget.conns > 0
    /\ budget' = [budget EXCEPT !.conns = @ - 1]
    /\ Connect
    /\ conns' = Append(conns, NewConn)
    /\ UNCHANGED <<now, recVars, TerminalSize, det, pty, received, finishSignal,
                   shutdown, webVars, engVars, lockVars>>

\* the client closes its socket, or the network drops it
ClientCloses(c) ==
    /\ Running
    /\ conns[c].sock = "open"
    /\ conns' = [conns EXCEPT ![c].sock = "closed"]
    /\ UNCHANGED <<now, sessVars, recVars, TerminalSize, det, pty, received,
                   budget, finishSignal, shutdown, webVars, engVars>>

\* the shell process exits
ShellExits ==
    /\ Running
    /\ ~pty.shellExited
    /\ pty' = [pty EXCEPT !.shellExited = TRUE]
    /\ UNCHANGED <<now, sessVars, recVars, TerminalSize, det, conns, received,
                   budget, finishSignal, shutdown, webVars, engVars>>

\* outbound task: h.pty.Read(buf) returns a chunk, or fails and the task
\* sends session_ended and goes to sleep
OutRead(c, chunks) ==
    /\ Running
    /\ conns[c].out = "read"
    /\ \/ /\ PtyReadFails(pty)
          /\ conns' = [conns EXCEPT ![c].out = "eof"]
          /\ UNCHANGED budget
       \/ /\ ~PtyReadFails(pty)
          /\ budget.reads > 0
          /\ \E data \in chunks :
                conns' = [conns EXCEPT ![c].out = "process", ![c].buf = data]
          /\ budget' = [budget EXCEPT !.reads = @ - 1]
    /\ UNCHANGED <<now, sessVars, recVars, TerminalSize, det, pty, received,
                   finishSignal, shutdown, webVars, engVars>>

\* outbound task, n > 0: RecordOutput, UpdateTerminalBuffer, WriteMessage
OutProcess(c) ==
    /\ Running
    /\ conns[c].out = "process"
    /\ rec' = RecordOutput(rec, Len(conns[c].buf), now, diskOk)
    /\ UpdateTerminalBuffer(conns[c].buf)
    /\ conns' = IF conns[c].sock = "open"
                THEN [conns EXCEPT ![c].out = "read", ![c].buf = <<>>]
                ELSE [conns EXCEPT ![c] = SelectDone([@ EXCEPT !.buf = <<>>],
                                                     "out", "socket")]
    /\ UNCHANGED <<now, diskOk, TerminalSize, det, pty, received, budget,
                   finishSignal, shutdown, webVars, engVars, lockVars>>

\* outbound task after the 500 ms sleep: signal finish, close done, return
OutEof(c) ==
    /\ Running
    /\ conns[c].out = "eof"
    /\ finishSignal' = 1
    /\ conns' = [conns EXCEPT ![c] = SelectDone(@, "out", "pty")]
    /\ UNCHANGED <<now, sessVars, recVars, TerminalSize, det, pty, received,
                   budget, shutdown, webVars, engVars>>

\* inbound task: conn.ReadMessage() returns a message, or fails
InRead(c, msgs) ==
    /\ Running
    /\ conns[c].inp = "read"
    /\ \/ /\ conns[c].sock = "closed"
          /\ conns' = [conns EXCEPT ![c] = SelectDone(@, "inp", "socket")]
          /\ UNCHANGED budget
       \/ /\ conns[c].sock = "open"
          /\ budget.msgs > 0
          /\ \E m \in msgs :
                conns' = [conns EXCEPT ![c].inp = "process", ![c].msg = m]
          /\ budget' = [budget EXCEPT !.msgs = @ - 1]
    /\ UNCHANGED <<now, sessVars, recVars, TerminalSize, det, pty, received,
                   finishSignal, shutdown, webVars, engVars>>

\* a task in the default case of its select calls close(done) and returns;
\* the call panics if the other task closed done in between
TaskClose(c, task) ==
    /\ Running
    /\ conns[c][task] = "close"
    /\ conns' = [conns EXCEPT ![c] = CloseDone(@, task)]
    /\ engine' = IF conns[c].done THEN Panic(engine) ELSE engine
    /\ UNCHANGED <<now, sessVars, recVars, TerminalSize, det, pty, received,
                   budget, finishSignal, shutdown, webVars, mgr>>

\* Handle: case <-done: Disconnect(); on return the socket is closed
HandleDone(c) ==
    /\ Running
    /\ conns[c].h = "wait"
    /\ conns[c].done
    /\ Disconnect
    /\ conns' = [conns EXCEPT ![c].h = "returned", ![c].sock = "closed"]
    /\ UNCHANGED <<now, recVars, TerminalSize, det, pty, received, budget,
                   finishSignal, shutdown, webVars, engVars, lockVars>>

\* Handle: case <-h.shutdown: return without Disconnect()
HandleShutdown(c) ==
    /\ Running
    /\ conns[c].h = "wait"
    /\ shutdown
    /\ conns' = [conns EXCEPT ![c].h = "returned", ![c].sock = "closed"]
    /\ UNCHANGED <<now, sessVars, recVars, TerminalSize, det, pty, received,
                   budget, finishSignal, shutdown, webVars, engVars>>

\* the violations of one CheckInput call go to events.log, one line each
RECURSIVE RecordViolations(_, _, _, _)
RecordViolations(r, vs, t, ok) ==
    IF vs = <<>> THEN r
    ELSE RecordViolations(RecordEvent(r, "anticheat_violation", vs[1].Type, 1, t, ok),
                          Tail(vs), t, ok)

\* handleMessage(msg) for a JSON frame with a type
HandleMessage(m, r, d, p, t, ok) ==
    CASE m.kind = "resize" ->
            [rec |-> r, det |-> d, pty |-> PtyResize(p, m.size), fin |-> FALSE,
             err |-> FALSE]
      [] m.kind = "finish" ->
            [rec |-> r, det |-> d, pty |-> p, fin |-> TRUE, err |-> FALSE]
      [] m.kind = "anticheat" ->
            [rec |-> RecordEvent(r, "client_anticheat", m.event, 1, t, ok),
             det |-> RecordClientEvent(d, m.event), pty |-> p, fin |-> FALSE,
             err |-> FALSE]
      [] OTHER ->
            [rec |-> r, det |-> d, pty |-> p, fin |-> FALSE, err |-> FALSE]

\* the inbound task's handling of a plain text frame: CheckInput, the
\* violations, RecordInput, pty.Write
PlainText(m, r, d, p, t, ok) ==
    LET ci == CheckInput(d, m.len, t)
        r1 == RecordViolations(r, ci.violations, t, ok)
        r2 == RecordInput(r1, m.len, t, ok)
        w == PtyWrite(p, m.len, "text")
    IN  IF ~ci.allowed
        THEN [rec |-> r, det |-> ci.d, pty |-> p, fin |-> FALSE, err |-> FALSE]
        ELSE [rec |-> r2, det |-> ci.d, pty |-> w.p, fin |-> FALSE, err |-> w.err]

\* the inbound task's handling of a binary frame: RecordInput, pty.Write
Binary(m, r, d, p, t, ok) ==
    LET w == PtyWrite(p, m.len, "binary")
    IN  [rec |-> RecordInput(r, m.len, t, ok), det |-> d, pty |-> w.p,
         fin |-> FALSE, err |-> w.err]

\* the body of the inbound loop for message m
Inbound(m, r, d, p, t, ok) ==
    LET r0 == RecordWebSocketMessage(r, m.len, t, ok)
    IN  CASE m.kind = "text" -> PlainText(m, r0, d, p, t, ok)
          [] m.kind = "binary" -> Binary(m, r0, d, p, t, ok)
          [] OTHER -> HandleMessage(m, r0, d, p, t, ok)

\* inbound task: the message read is recorded, checked and handled
InProcess(c) ==
    /\ Running
    /\ conns[c].inp = "process"
    /\ LET m == conns[c].msg
           x == Inbound(m, rec, det, pty, now, diskOk)
       IN  /\ rec' = x.rec
           /\ det' = x.det
           /\ pty' = x.pty
           /\ finishSignal' = IF x.fin THEN 1 ELSE finishSignal
           /\ IF m.kind = "resize" THEN UpdateTerminalSize(m.size)
              ELSE UNCHANGED TerminalSize
           /\ received' = Append(received, m)
           /\ conns' = IF x.err
                       THEN [conns EXCEPT ![c] = SelectDone([@ EXCEPT !.msg = NoMsg],
                                                            "inp", "pty")]
                       ELSE [conns EXCEPT ![c].inp = "read", ![c].msg = NoMsg]
    /\ UNCHANGED <<now, sessVars, diskOk, budget, shutdown, webVars, engVars>>

(***************************************************************************)
(* Server.handleReconnect                                                  *)
(***************************************************************************)
\* the bytes U+FFFD has in UTF-8
ReplacementChar == <<239, 191, 189>>

\* string(buffer) as encoding/json writes it and a client reads it back:
\* every byte that is not part of a valid UTF-8 sequence becomes U+FFFD
RECURSIVE JsonString(_)
JsonString(b) ==
    IF b = <<>> THEN <<>>
    ELSE IF b[1] < 128 THEN <<b[1]>> \o JsonString(Tail(b))
    ELSE IF b[1] = 195 /\ Len(b) >= 2 /\ b[2] >= 128 /\ b[2] < 192
    THEN <<b[1], b[2]>> \o JsonString(Tail(Tail(b)))
    ELSE ReplacementChar \o JsonString(Tail(b))

NoReq == [pc |-> "idle", token |-> "", can |-> FALSE, late |-> FALSE]

NoResp == [status |-> 0, token |-> "", can |-> FALSE, late |-> FALSE,
           buffer |-> <<>>, rolling |-> <<>>]

\* the answer of handleReconnect for a request that failed CanReconnect
Refusal(state) ==
    IF state = StateExpired THEN 410
    ELSE IF state = StateActive THEN 409
    ELSE 401

\* handleReconnect up to the CanReconnect call; an empty token gets 400
ReconnectCheck(token) ==
    /\ Running
    /\ ~shutdown
    /\ req.pc = "idle"
    /\ IF token = ""
       THEN /\ resp' = [NoResp EXCEPT !.status = 400]
            /\ UNCHANGED req
       ELSE /\ req' = [pc |-> "checked", token |-> token,
                       can |-> CanReconnect(token),
                       late |-> /\ State = StateDisconnected
                                /\ now - LastDisconnectTime > ReconnectWindow]
            /\ UNCHANGED resp
    /\ UNCHANGED <<now, sessVars, recVars, brVars, engVars>>

\* handleReconnect after the CanReconnect call: GetState and an error, or
\* GetTerminalBuffer and the JSON answer
ReconnectRespond ==
    /\ Running
    /\ req.pc = "checked"
    /\ resp' = IF ~req.can
               THEN [status |-> Refusal(GetState), token |-> req.token,
                     can |-> req.can, late |-> req.late, buffer |-> <<>>,
                     rolling |-> GetTerminalBuffer]
               ELSE [status |-> 200, token |-> req.token, can |-> req.can,
                     late |-> req.late,
                     buffer |-> JsonString(GetTerminalBuffer),
                     rolling |-> GetTerminalBuffer]
    /\ req' = NoReq
    /\ UNCHANGED <<now, sessVars, recVars, brVars, engVars>>

(***************************************************************************)
(* session.Manager                                                         *)
(***************************************************************************)
\* the files calculateFileHashes goes through
HashedFiles == {"keystrokes.log", "terminal.log", "timing.log", "websocket.log",
                "events.log", "commands.log"}

\* the files Complete makes read-only
ProtectedFiles == {"metadata.json", "analysis.json", "commands.log"}

\* the recorder stream behind a log file
StreamOf(f) ==
    CASE f = "keystrokes.log" -> "keystrokes"
      [] f = "terminal.log" -> "terminal"
      [] f = "timing.log" -> "timing"
      [] f = "websocket.log" -> "websocket"
      [] f = "events.log" -> "events"

\* json.MarshalIndent(m.session): the fields of the Session that change
Marshal(m) ==
    [Status |-> m.Status, EndTime |-> m.EndTime, Duration |-> m.Duration,
     FileHashes |-> m.FileHashes, Metadata |-> m.Metadata]

\* os.WriteFile and os.OpenFile for writing succeed on file f: root writes
\* anywhere, any other user needs the owner's write bit
Writable(m, f) == m.root \/ m.mode[f] # "0400"

\* Manager.SaveMetadata at time t (the session started at time 0)
SaveMetadata(m, t) ==
    LET m1 == [m EXCEPT !.EndTime = t, !.Duration = t]
    IN  IF Writable(m1, "metadata.json")
        THEN [m1 EXCEPT !.metadataJson = Marshal(m1),
                        !.mode["metadata.json"] = IF @ = "none" THEN "0600" ELSE @,
                        !.ret = FALSE]
        ELSE [m1 EXCEPT !.ret = TRUE]

\* the Manager after NewManager at time 0, run by root or by another user
NewManager(root) ==
    SaveMetadata([Status |-> "active",
                  EndTime |-> ZeroTime,
                  Duration |-> 0,
                  FileHashes |-> <<>>,
                  Metadata |-> {"reconnect_token", "reconnect_window_seconds"},
                  root |-> root,
                  mode |-> [f \in ProtectedFiles |-> "none"],
                  commandsLog |-> <<>>,
                  analysis |-> [done |-> FALSE],
                  unreadable |-> {},
                  metadataJson |-> <<>>,
                  ret |-> FALSE,
                  completes |-> 0], 0)

\* Manager.SetMetadata(key, value)
SetMetadata(m, key) == [m EXCEPT !.Metadata = @ \cup {key}]

\* hashFile: SHA-256 of the bytes of the file, taken as collision free
hashFile(content) == <<"sha256", content>>

\* the files in the order calculateFileHashes goes through them
HashedOrder == <<"keystrokes.log", "terminal.log", "timing.log", "websocket.log",
                 "events.log", "commands.log">>

\* the files calculateFileHashes gets to hash: os.Stat skips a file that does
\* not exist, and the loop returns at the first file hashFile fails on
\* (m.unreadable: the files os.Open or the read fails on)
HashedUpTo(m) ==
    LET existing == HashedFiles \ (IF m.mode["commands.log"] = "none"
                                   THEN {"commands.log"} ELSE {})
        bad == {i \in 1..Len(HashedOrder) :
                   HashedOrder[i] \in existing \cap m.unreadable}
        stop == IF bad = {} THEN Len(HashedOrder) + 1
                ELSE CHOOSE i \in bad : \A j \in bad : i <= j
    IN  [done |-> {HashedOrder[i] : i \in 1..(stop - 1)} \cap existing,
         err |-> bad # {}]

calculateFileHashesMutEmpty(m, files) ==
    [m EXCEPT !.FileHashes =
                  [f \in HashedUpTo(m).done |->
                      IF f = "commands.log" THEN hashFile(m.commandsLog)
                      ELSE hashFile(<<>>)],
              !.ret = HashedUpTo(m).err]

\* Manager.calculateFileHashes: files are the recorder's files on disk
calculateFileHashes(m, files) ==
    [m EXCEPT !.FileHashes =
                  [f \in HashedUpTo(m).done |->
                      IF f = "commands.log" THEN hashFile(m.commandsLog)
                      ELSE hashFile(files[StreamOf(f)])],
              !.ret = HashedUpTo(m).err]

\* what a Complete call leaves behind: the Session fields, metadata.json
\* and the file modes
Snapshot(m) ==
    [Status |-> m.Status, EndTime |-> m.EndTime, Duration |-> m.Duration,
     FileHashes |-> m.FileHashes, metadataJson |-> m.metadataJson,
     mode |-> m.mode]

\* Manager.Complete at time t
CompleteBody(m, files, t) ==
    LET m1 == [m EXCEPT !.Status = "completed", !.EndTime = t, !.Duration = t]
        m2 == calculateFileHashes(m1, files)
        m3 == SaveMetadata(m2, t)
    IN  IF m2.ret THEN m2
        ELSE IF m3.ret THEN m3
        ELSE [m3 EXCEPT !.mode = [f \in ProtectedFiles |->
                                     IF m3.mode[f] = "none" THEN "none" ELSE "0400"]]

\* Manager.Complete, and the count of its calls
Complete(m, files, t) ==
    [CompleteBody(m, files, t) EXCEPT !.completes = @ + 1]

\* Manager.Error(err)
Error(m, t) == SaveMetadata(SetMetadata([m EXCEPT !.Status = "error"], "error"), t)

\* terminal.ExtractCommands then anticheat.AnalyzeSession and SaveReport:
\* commands.log is rewritten from keystrokes.log, analysis.json is written,
\* both left read-only
Finalize(m, files) ==
    LET m1 == IF Writable(m, "commands.log")
              THEN [m EXCEPT !.commandsLog = files["keystrokes"],
                             !.mode["commands.log"] = "0400"]
              ELSE m
    IN  IF Writable(m1, "analysis.json")
        THEN [m1 EXCEPT !.mode["analysis.json"] = "0400"]
        ELSE m1

(***************************************************************************)
(* keystrokes.log as bytes, and terminal.ExtractCommands reading it.       *)
(***************************************************************************)
\* one lower-case hexadecimal digit, as a character
HexDigit(n) == IF n < 10 THEN 48 + n ELSE 87 + n

\* the value of a hexadecimal digit character, -1 if it is none
HexValue(c) ==
    IF c >= 48 /\ c <= 57 THEN c - 48
    ELSE IF c >= 97 /\ c <= 102 THEN c - 87
    ELSE IF c >= 65 /\ c <= 70 THEN c - 55
    ELSE -1

\* the single-letter escapes of a Go string literal: the byte and its letter
Escapes == {<<7, 97>>, <<8, 98>>, <<12, 102>>, <<10, 110>>, <<13, 114>>,
            <<9, 116>>, <<11, 118>>, <<92, 92>>, <<34, 34>>}

\* what %q prints for one byte that is not part of a multi-byte character
QuoteByte(b) ==
    IF \E e \in Escapes : e[1] = b
    THEN <<92, (CHOOSE e \in Escapes : e[1] = b)[2]>>
    ELSE IF b >= 32 /\ b < 127 THEN <<b>>
    ELSE <<92, 120, HexDigit(b \div 16), HexDigit(b % 16)>>

\* the bytes b1 b2 are the UTF-8 encoding of a printable Latin-1 letter
\* (U+00C0..U+00FF), which %q prints as it is
PrintablePair(b1, b2) == b1 = 195 /\ b2 >= 128 /\ b2 <= 191

\* the inside of the string literal %q prints for the bytes s
RECURSIVE QuoteBody(_)
QuoteBody(s) ==
    IF s = <<>> THEN <<>>
    ELSE IF Len(s) >= 2 /\ PrintablePair(s[1], s[2])
         THEN <<s[1], s[2]>> \o QuoteBody(Tail(Tail(s)))
         ELSE QuoteByte(s[1]) \o QuoteBody(Tail(s))

\* strconv.Itoa for 0..99
Itoa(n) == IF n < 10 THEN <<48 + n>> ELSE <<48 + (n \div 10), 48 + (n % 10)>>

\* fmt.Fprintf(w, "%d %q\n", timestamp, string(data))
KeystrokeLine(timestamp, data) ==
    Itoa(timestamp) \o <<32, 34>> \o QuoteBody(data) \o <<34, 10>>

\* bufio.Scanner with ScanLines on the bytes f, cur being the line read so
\* far: the lines up to the end of f, or up to the first line that does not
\* fit the buffer with its newline (Scan returns false there)
RECURSIVE ScanLines(_, _)
ScanLines(f, cur) ==
    IF f = <<>> THEN (IF cur = <<>> THEN <<>> ELSE <<cur>>)
    ELSE IF f[1] = 10
         THEN <<IF cur # <<>> /\ cur[Len(cur)] = 13
                THEN SubSeq(cur, 1, Len(cur) - 1) ELSE cur>>
              \o ScanLines(Tail(f), <<>>)
         ELSE IF Len(cur) + 1 >= MaxScanTokenSize THEN <<>>
         ELSE ScanLines(Tail(f), Append(cur, f[1]))

\* the verb %d of Sscanf on s: the digits read, their value, the rest
RECURSIVE ScanInt(_, _, _)
ScanInt(s, n, v) ==
    IF s # <<>> /\ s[1] >= 48 /\ s[1] <= 57
    THEN ScanInt(Tail(s), n + 1, 10 * v + (s[1] - 48))
    ELSE [ok |-> n > 0, value |-> v, rest |-> s]

\* a space in the format of Sscanf: any number of spaces in the input
RECURSIVE SkipSpaces(_)
SkipSpaces(s) == IF s # <<>> /\ s[1] = 32 THEN SkipSpaces(Tail(s)) ELSE s

\* the verb %q of Sscanf on s after the opening quote: the literal up to the
\* closing quote, a character after a backslash never closing it
RECURSIVE ReadQuoted(_, _)
ReadQuoted(s, acc) ==
    IF s = <<>> THEN [ok |-> FALSE, body |-> acc]
    ELSE IF s[1] = 34 THEN [ok |-> TRUE, body |-> acc]
    ELSE IF s[1] = 92
         THEN IF Len(s) < 2 THEN [ok |-> FALSE, body |-> acc]
              ELSE ReadQuoted(Tail(Tail(s)), acc \o <<s[1], s[2]>>)
         ELSE ReadQuoted(Tail(s), Append(acc, s[1]))

\* strconv.Unquote on the inside q of a double-quoted literal
RECURSIVE Unquote(_, _)
Unquote(q, acc) ==
    IF q = <<>> THEN [ok |-> TRUE, value |-> acc]
    ELSE IF q[1] # 92 THEN Unquote(Tail(q), Append(acc, q[1]))
    ELSE IF Len(q) < 2 THEN [ok |-> FALSE, value |-> acc]
    ELSE IF q[2] = 120
         THEN IF Len(q) >= 4 /\ HexValue(q[3]) >= 0 /\ HexValue(q[4]) >= 0
              THEN Unquote(SubSeq(q, 5, Len(q)),
                           Append(acc, 16 * HexValue(q[3]) + HexValue(q[4])))
              ELSE [ok |-> FALSE, value |-> acc]
    ELSE IF \E e \in Escapes : e[2] = q[2]
         THEN Unquote(Tail(Tail(q)),
                      Append(acc, (CHOOSE e \in Escapes : e[2] = q[2])[1]))
         ELSE [ok |-> FALSE, value |-> acc]

\* fmt.Sscanf(line, "%d %q", &timestamp, &keystroke)
Sscanf(line) ==
    LET d == ScanInt(line, 0, 0)
        r == SkipSpaces(d.rest)
        q == IF r # <<>> /\ r[1] = 34 THEN ReadQuoted(Tail(r), <<>>)
             ELSE [ok |-> FALSE, body |-> <<>>]
        u == Unquote(q.body, <<>>)
    IN  [err |-> ~(d.ok /\ q.ok /\ u.ok), timestamp |-> d.value,
         keystroke |-> u.value]

\* the switch of ExtractCommands on the bytes of one keystroke: x is the
\* current command and the lines of commands.log written so far
RECURSIVE ReplayKeystroke(_, _, _)
ReplayKeystroke(keystroke, timestamp, x) ==
    IF keystroke = <<>> THEN x
    ELSE LET ch == keystroke[1]
             y == CASE ch = 13 \/ ch = 10 ->
                          IF Len(x.currentCommand) > 0
                          THEN [currentCommand |-> <<>>,
                                lines |-> Append(x.lines,
                                                 [ms |-> timestamp,
                                                  text |-> x.currentCommand])]
                          ELSE x
                    [] ch = 127 \/ ch = 8 ->
                          IF Len(x.currentCommand) > 0
                          THEN [x EXCEPT !.currentCommand =
                                           SubSeq(@, 1, Len(@) - 1)]
                          ELSE x
                    [] ch = 3 \/ ch = 21 -> [x EXCEPT !.currentCommand = <<>>]
                    [] OTHER ->
                          IF ch >= 32 /\ ch < 127
                          THEN [x EXCEPT !.currentCommand = Append(@, ch)]
                          ELSE x
         IN  ReplayKeystroke(Tail(keystroke), timestamp, y)

\* the scanner loop of ExtractCommands over the lines read
RECURSIVE ReplayLines(_, _)
ReplayLines(lines, x) ==
    IF lines = <<>> THEN x
    ELSE LET p == Sscanf(lines[1])
         IN  ReplayLines(Tail(lines),
                         IF p.err THEN x
                         ELSE ReplayKeystroke(p.keystroke, p.timestamp, x))

\* terminal.ExtractCommands on the bytes of keystrokes.log: the command
\* lines of commands.log and the "# Incomplete:" text, empty if there is none
ExtractCommands(keystrokesFile) ==
    LET x == ReplayLines(ScanLines(keystrokesFile, <<>>),
                         [currentCommand |-> <<>>, lines |-> <<>>])
    IN  [lines |-> x.lines, incomplete |-> x.currentCommand]

(***************************************************************************)
(* anticheat.AnalyzeSession: the events of events.log and the verdict.     *)
(***************************************************************************)
\* the severity the Logger gave the event behind an events.log line
LoggedSeverity(tag) ==
    IF tag.type = "client_anticheat" THEN ClientSeverity(tag.desc)
    ELSE IF tag.desc = "paste_attempt" THEN "critical"
    ELSE "warning"

\* json.Marshal(event) as the keys of the JSON object and their values
EventJSON(tag) ==
    [timestamp |-> "t", severity |-> LoggedSeverity(tag), type |-> tag.desc,
     description |-> "d", data |-> "{}"]

\* one line of events.log: "<ms> <eventType> <json>"
EventLine(tag) == [eventType |-> tag.type, data |-> EventJSON(tag)]

\* strings.Contains(s, sub) on the event names of the model
Contains(s, sub) ==
    CASE sub = "paste" -> s \in {"paste_attempt", "paste_blocked"}
      [] sub = "rapid" -> s \in {"rapid_input"}

\* loadEvents: the severity it gives the event of one line
LoadedSeverity(line) ==
    IF line.eventType = "anticheat" /\ "event" \in DOMAIN line.data
    THEN IF Contains(line.data["event"], "paste") THEN "critical"
         ELSE IF Contains(line.data["event"], "rapid") THEN "warning"
         ELSE "info"
    ELSE "info"

\* loadEvents on the lines of events.log
loadEvents(lines) ==
    [i \in 1..Len(lines) |->
        [Severity |-> LoadedSeverity(lines[i]), Type |-> lines[i].eventType]]

\* generateVerdict: the suspicion score and the verdict
generateVerdict(stats, events) ==
    LET criticalCount == Cardinality({i \in 1..Len(events) :
                                         events[i].Severity = "critical"})
        warningCount == Cardinality({i \in 1..Len(events) :
                                        events[i].Severity = "warning"})
        suspicionScore == 30 * criticalCount + 10 * warningCount
                            + (IF stats.AverageWPM > 120 THEN 20 ELSE 0)
                            + (IF stats.WPMStdDev > 50 THEN 15 ELSE 0)
    IN  [score |-> suspicionScore,
         verdict |-> IF suspicionScore >= 50 THEN "SUSPICIOUS"
                     ELSE IF suspicionScore >= 30 THEN "REVIEW_RECOMMENDED"
                     ELSE IF suspicionScore >= 10 THEN "MINOR_CONCERNS"
                     ELSE "CLEAN"]

\* AnalyzeSession given the typing statistics and the lines of events.log
AnalyzeSession(stats, lines) ==
    LET v == generateVerdict(stats, loadEvents(lines))
    IN  [done |-> TRUE, lines |-> lines, stats |-> stats, score |-> v.score,
         verdict |-> v.verdict]

(***************************************************************************)
(* main                                                                    *)
(***************************************************************************)
\* Recorder.Close as one call
RecorderClose(r, ok) ==
    IF r.closed THEN CloseBegin(r) ELSE CloseFinish(CloseBegin(r), ok)

\* SIGINT or SIGTERM arrives
OsSignal ==
    /\ Running
    /\ ~engine.sig
    /\ engine' = [engine EXCEPT !.sig = TRUE]
    /\ UNCHANGED <<now, sessVars, recVars, brVars, webVars, mgr>>

\* the calls of main in a shutdown path up to the sleep, in the order of
\* the code
FinalizeCalls ==
    <<"pty.Close", "recorder.Close", "ExtractCommands", "AnalyzeSession", "Complete">>

MainFinishPathMutHashFirst ==
    /\ engine.pc = "select"
    /\ finishSignal = 1
    /\ finishSignal' = 0
    /\ pty' = PtyClose(pty)
    /\ rec' = RecorderClose(rec, diskOk)
    /\ mgr' = Finalize(Complete(mgr, rec'.file, now), rec'.file)
    /\ engine' = [engine EXCEPT !.pc = "sleep", !.path = "finish",
                                !.steps = @ \o FinalizeCalls]
    /\ UNCHANGED <<now, sessVars, diskOk, TerminalSize, det, conns, received,
                   budget, shutdown, webVars>>

\* main on a finish: pty.Close, recorder.Close, ExtractCommands, the
\* analysis report, sessionMgr.Complete; steps is the list of main's calls
MainFinishPath ==
    /\ engine.pc = "select"
    /\ finishSignal = 1
    /\ finishSignal' = 0
    /\ pty' = PtyClose(pty)
    /\ rec' = RecorderClose(rec, diskOk)
    /\ mgr' = Complete(Finalize(mgr, rec'.file), rec'.file, now)
    /\ engine' = [engine EXCEPT !.pc = "sleep", !.path = "finish",
                                !.steps = @ \o FinalizeCalls]
    /\ UNCHANGED <<now, sessVars, diskOk, TerminalSize, det, conns, received,
                   budget, shutdown, webVars>>

\* main on SIGINT or SIGTERM: SetMetadata("interrupted"), SetMetadata("signal"),
\* pty.Close, recorder.Close, ExtractCommands, the analysis report,
\* Status = "interrupted", sessionMgr.Complete
MainSignalPath ==
    /\ engine.pc = "select"
    /\ engine.sig
    /\ pty' = PtyClose(pty)
    /\ rec' = RecorderClose(rec, diskOk)
    /\ LET m1 == SetMetadata(SetMetadata(mgr, "interrupted"), "signal")
           m2 == Finalize(m1, rec'.file)
       IN  mgr' = Complete([m2 EXCEPT !.Status = "interrupted"], rec'.file, now)
    /\ engine' = [pc |-> "sleep", path |-> "signal", sig |-> FALSE,
                  steps |-> engine.steps \o FinalizeCalls]
    /\ UNCHANGED <<now, sessVars, diskOk, TerminalSize, det, conns, received,
                   budget, finishSignal, shutdown, webVars>>

\* after the sleep, server.Shutdown: WSHandler.Shutdown closes h.shutdown
MainShutdown ==
    /\ engine.pc = "sleep"
    /\ shutdown' = TRUE
    /\ engine' = [engine EXCEPT !.pc = "shutdown",
                                !.steps = @ \o <<"Sleep", "server.Shutdown">>]
    /\ UNCHANGED <<now, sessVars, recVars, TerminalSize, det, pty, conns,
                   received, budget, finishSignal, webVars, mgr>>

MainExitMutLoop ==
    /\ engine.pc = "shutdown"
    /\ engine' = [engine EXCEPT !.pc = "select"]
    /\ UNCHANGED <<now, sessVars, recVars, brVars, webVars, mgr>>

\* os.Exit(0) on a finish; on a signal the return from main, which runs
\* the deferred pty.Close() and recorder.Close()
MainExit ==
    /\ engine.pc = "shutdown"
    /\ IF engine.path = "signal"
       THEN /\ pty' = PtyClose(pty)
            /\ rec' = RecorderClose(rec, diskOk)
            /\ engine' = [engine EXCEPT !.pc = "exited",
                                        !.steps = @ \o <<"pty.Close", "recorder.Close">>]
       ELSE /\ engine' = [engine EXCEPT !.pc = "exited"]
            /\ UNCHANGED <<pty, rec>>
    /\ UNCHANGED <<now, sessVars, diskOk, TerminalSize, det, conns, received,
                   budget, finishSignal, shutdown, webVars, mgr>>

(***************************************************************************)
(* SpecSession: the SessionState methods called in any order.              *)
(***************************************************************************)
\* no client and a silent shell
NoBudget == [conns |-> 0, reads |-> 0, msgs |-> 0]

\* the state main builds before it serves: detector, PTY, handler, manager
AppInit(root, b) ==
    /\ budget = b
    /\ TerminalSize = [Cols |-> 0, Rows |-> 0]
    /\ det = NewDetector
    /\ pty = NewPTY
    /\ conns = <<>>
    /\ received = <<>>
    /\ finishSignal = 0
    /\ shutdown = FALSE
    /\ req = NoReq
    /\ resp = NoResp
    /\ engine = [pc |-> "select", path |-> "none", sig |-> FALSE, steps |-> <<>>]
    /\ mgr = NewManager(root)

SessInit ==
    /\ now = 0
    /\ NewSessionState
    /\ rec = NewRecorder
    /\ diskOk = TRUE
    /\ AppInit(TRUE, NoBudget)

SessConnect ==
    ConnectionCount <= MaxConnects /\ Connect /\ UNCHANGED <<now, recVars, appVars, lockVars>>

SessDisconnect ==
    DisconnectCount < MaxConnects /\ Disconnect /\ UNCHANGED <<now, recVars, appVars, lockVars>>

SessMarkExpired == MarkExpired /\ UNCHANGED <<now, recVars, appVars, lockVars>>

SessTick == Tick /\ UNCHANGED <<sessVars, recVars, appVars>>

SessNext ==
    \/ SessConnect
    \/ SessDisconnect
    \/ SessMarkExpired
    \/ SessTick

SpecSession == SessInit /\ [][SessNext]_vars

(***************************************************************************)
(* SpecLock: the steps of a CanReconnect call inside SessionState.mu, and  *)
(* one other goroutine that calls the methods which take the write lock.   *)
(* budget.reads is the number of CanReconnect calls still to come,         *)
(* budget.msgs the number of writer calls; received is the history of the  *)
(* CanReconnect results.                                                   *)
(***************************************************************************)
Writers == {"Connect", "Disconnect", "MarkExpired", "UpdateTerminalBuffer",
            "UpdateTerminalSize"}

InitLock ==
    /\ now = 0
    /\ NewSessionState
    /\ rec = NewRecorder
    /\ diskOk = TRUE
    /\ AppInit(TRUE, [conns |-> 0, reads |-> MaxLockCalls, msgs |-> MaxLockCalls])

\* a goroutine calls CanReconnect(token) and comes to s.mu.RLock()
CanReconnectCall(token) ==
    /\ calls.can.pc = "idle"
    /\ budget.reads > 0
    /\ budget' = [budget EXCEPT !.reads = @ - 1]
    /\ calls' = [calls EXCEPT !.can = [pc |-> "RLock", token |-> token,
                                       result |-> FALSE]]
    /\ UNCHANGED <<now, State, LastConnectTime, LastDisconnectTime,
                   ConnectionCount, DisconnectCount, TerminalBuffer, appended,
                   lastData, mu, recVars, TerminalSize, det, pty, conns, received,
                   finishSignal, shutdown, webVars, engVars>>

\* CanReconnect: RLock returns; the token is compared
CanReconnectRLock ==
    /\ calls.can.pc = "RLock"
    /\ RLockReady(mu)
    /\ mu' = RLock(mu)
    /\ calls' = [calls EXCEPT !.can.pc = IF ReconnectToken # calls.can.token
                                         THEN "RUnlock" ELSE "IsExpired"]
    /\ UNCHANGED <<now, State, LastConnectTime, LastDisconnectTime,
                   ConnectionCount, DisconnectCount, TerminalBuffer, appended,
                   lastData, recVars, appVars>>

\* IsExpired, called by CanReconnect: its own RLock returns
IsExpiredRLock ==
    /\ calls.can.pc = "IsExpired"
    /\ RLockReady(mu)
    /\ mu' = RLock(mu)
    /\ calls' = [calls EXCEPT !.can.pc = "IsExpiredBody"]
    /\ UNCHANGED <<now, State, LastConnectTime, LastDisconnectTime,
                   ConnectionCount, DisconnectCount, TerminalBuffer, appended,
                   lastData, recVars, appVars>>

\* IsExpired returns and releases its read lock; CanReconnect goes on to
\* return false, or s.State == StateDisconnected
IsExpiredReturn ==
    /\ calls.can.pc = "IsExpiredBody"
    /\ mu' = RUnlock(mu)
    /\ calls' = [calls EXCEPT !.can.pc = "RUnlock",
                              !.can.result = CanReconnect(calls.can.token)]
    /\ UNCHANGED <<now, State, LastConnectTime, LastDisconnectTime,
                   ConnectionCount, DisconnectCount, TerminalBuffer, appended,
                   lastData, recVars, appVars>>

\* CanReconnect returns: the deferred RUnlock runs
CanReconnectReturn ==
    /\ calls.can.pc = "RUnlock"
    /\ mu' = RUnlock(mu)
    /\ calls' = [calls EXCEPT !.can = NoCalls.can]
    /\ received' = Append(received, [token |-> calls.can.token,
                                     result |-> calls.can.result])
    /\ UNCHANGED <<now, State, LastConnectTime, LastDisconnectTime,
                   ConnectionCount, DisconnectCount, TerminalBuffer, appended,
                   lastData, recVars, TerminalSize, det, pty, conns, budget,
                   finishSignal, shutdown, webVars, engVars>>

\* another goroutine calls a method that starts with s.mu.Lock(): the
\* writer is announced
WriterCall(method, data) ==
    /\ calls.wr.pc = "idle"
    /\ budget.msgs > 0
    /\ mu.writer = "none"
    /\ budget' = [budget EXCEPT !.msgs = @ - 1]
    /\ mu' = LockPending(mu)
    /\ calls' = [calls EXCEPT !.wr = [pc |-> "Lock", method |-> method,
                                      data |-> data]]
    /\ UNCHANGED <<now, State, LastConnectTime, LastDisconnectTime,
                   ConnectionCount, DisconnectCount, TerminalBuffer, appended,
                   lastData, recVars, TerminalSize, det, pty, conns, received,
                   finishSignal, shutdown, webVars, engVars>>

\* Lock returns: every read lock has been released
WriterLock ==
    /\ calls.wr.pc = "Lock"
    /\ LockReady(mu)
    /\ mu' = Lock(mu)
    /\ calls' = [calls EXCEPT !.wr.pc = "body"]
    /\ UNCHANGED <<now, State, LastConnectTime, LastDisconnectTime,
                   ConnectionCount, DisconnectCount, TerminalBuffer, appended,
                   lastData, recVars, appVars>>

\* the body of the method under the write lock, and the deferred Unlock
WriterUnlock ==
    /\ calls.wr.pc = "body"
    /\ mu' = Unlock(mu)
    /\ calls' = [calls EXCEPT !.wr = NoCalls.wr]
    /\ \/ calls.wr.method = "Connect" /\ Connect /\ UNCHANGED TerminalSize
       \/ calls.wr.method = "Disconnect" /\ Disconnect /\ UNCHANGED TerminalSize
       \/ calls.wr.method = "MarkExpired" /\ MarkExpired /\ UNCHANGED TerminalSize
       \/ /\ calls.wr.method = "UpdateTerminalBuffer"
          /\ UpdateTerminalBuffer(calls.wr.data)
          /\ UNCHANGED <<State, LastConnectTime, LastDisconnectTime,
                         ConnectionCount, DisconnectCount, TerminalSize>>
       \/ /\ calls.wr.method = "UpdateTerminalSize"
          /\ UpdateTerminalSize([Cols |-> 80, Rows |-> 24])
          /\ UNCHANGED <<State, LastConnectTime, LastDisconnectTime,
                         ConnectionCount, DisconnectCount, TerminalBuffer,
                         appended, lastData>>
    /\ UNCHANGED <<now, recVars, det, pty, conns, received, budget, finishSignal,
                   shutdown, webVars, engVars>>

LockTick == Tick /\ UNCHANGED <<sessVars, recVars, appVars>>

NextLock ==
    \/ \E token \in Tokens : CanReconnectCall(token)
    \/ CanReconnectRLock
    \/ IsExpiredRLock
    \/ IsExpiredReturn
    \/ CanReconnectReturn
    \/ \E method \in Writers : WriterCall(method, <<97>>)
    \/ WriterLock
    \/ WriterUnlock
    \/ LockTick

SpecLock == InitLock /\ [][NextLock]_vars

\* every step of a call is taken when it can be; nothing obliges a
\* goroutine to start a call
FairLock ==
    /\ SpecLock
    /\ WF_vars(CanReconnectRLock)
    /\ WF_vars(IsExpiredRLock)
    /\ WF_vars(IsExpiredReturn)
    /\ WF_vars(CanReconnectReturn)
    /\ WF_vars(WriterLock)
    /\ WF_vars(WriterUnlock)

(***************************************************************************)
(* SpecBuffer: UpdateTerminalBuffer called with any chunks.                *)
(***************************************************************************)
BufUpdateTerminalBuffer ==
    \E data \in SeqsUpTo(Byte, MaxChunk) :
        /\ Len(appended) + Len(data) <= MaxAppended
        /\ UpdateTerminalBuffer(data)
        /\ UNCHANGED <<now, recVars, appVars, lockVars>>

SpecBuffer == SessInit /\ [][BufUpdateTerminalBuffer]_vars

(***************************************************************************)
(* SpecRecorder: the Record* callers, the periodic flusher and Close.      *)
(***************************************************************************)
RecInit ==
    /\ now = 0
    /\ NewSessionState
    /\ rec = NewRecorder
    /\ diskOk = TRUE
    /\ AppInit(TRUE, NoBudget)

RecRecordInput ==
    \E n \in 1..MaxRecLen :
        /\ Len(rec.recs) < MaxRecords
        /\ rec' = RecordInput(rec, n, now, diskOk)
        /\ UNCHANGED <<now, sessVars, diskOk, appVars>>

RecRecordOutput ==
    \E n \in 1..MaxRecLen :
        /\ Len(rec.recs) < MaxRecords
        /\ rec' = RecordOutput(rec, n, now, diskOk)
        /\ UNCHANGED <<now, sessVars, diskOk, appVars>>

RecRecordWebSocketMessage ==
    \E n \in 1..MaxRecLen :
        /\ Len(rec.recs) < MaxRecords
        /\ rec' = RecordWebSocketMessage(rec, n, now, diskOk)
        /\ UNCHANGED <<now, sessVars, diskOk, appVars>>

RecRecordEvent ==
    \E n \in 1..MaxRecLen :
        /\ Len(rec.recs) < MaxRecords
        /\ rec' = RecordEvent(rec, "session_start", "", n, now, diskOk)
        /\ UNCHANGED <<now, sessVars, diskOk, appVars>>

\* flushTicker delivers a tick
RecTickerFires ==
    /\ ~rec.tickerStopped
    /\ ~rec.tickPending
    /\ rec' = [rec EXCEPT !.tickPending = TRUE]
    /\ UNCHANGED <<now, sessVars, diskOk, appVars>>

RecFlushLoopTick ==
    /\ rec.flushLoopPc = "run"
    /\ rec.tickPending
    /\ rec' = FlushLoopTick(rec, diskOk)
    /\ UNCHANGED <<now, sessVars, diskOk, appVars>>

\* flushLoop: case <-r.flushDone
RecFlushLoopExit ==
    /\ rec.flushLoopPc = "run"
    /\ rec.flushDone
    /\ rec' = [rec EXCEPT !.flushLoopPc = "exit"]
    /\ UNCHANGED <<now, sessVars, diskOk, appVars>>

\* a Close call, the first or a later one, also while the first is running
RecCloseBegin ==
    /\ rec' = CloseBegin(rec)
    /\ UNCHANGED <<now, sessVars, diskOk, appVars>>

RecCloseFinish ==
    /\ rec.closePc = "closing"
    /\ rec' = CloseFinish(rec, diskOk)
    /\ UNCHANGED <<now, sessVars, diskOk, appVars>>

\* the disk fills up: from now on every write to a file fails
RecDiskFull ==
    /\ diskOk
    /\ diskOk' = FALSE
    /\ UNCHANGED <<now, sessVars, rec, appVars>>

RecTick == now < RecMaxTime /\ Tick /\ UNCHANGED <<sessVars, recVars, appVars>>

RecNext ==
    \/ RecRecordInput
    \/ RecRecordOutput
    \/ RecRecordWebSocketMessage
    \/ RecRecordEvent
    \/ RecTickerFires
    \/ RecFlushLoopTick
    \/ RecFlushLoopExit
    \/ RecCloseBegin
    \/ RecCloseFinish
    \/ RecDiskFull
    \/ RecTick

SpecRecorder == RecInit /\ [][RecNext]_vars

(***************************************************************************)
(* SpecClose: Close called again and again, also while a Close is running, *)
(* with the Record* callers and the flusher going on.                      *)
(***************************************************************************)
ClRecordInput ==
    /\ Len(rec.recs) < MaxCloseRecs
    /\ rec' = RecordInput(rec, 1, now, diskOk)
    /\ UNCHANGED <<now, sessVars, diskOk, appVars>>

ClRecordOutput ==
    /\ Len(rec.recs) < MaxCloseRecs
    /\ rec' = RecordOutput(rec, 1, now, diskOk)
    /\ UNCHANGED <<now, sessVars, diskOk, appVars>>

ClRecordWebSocketMessage ==
    /\ Len(rec.recs) < MaxCloseRecs
    /\ rec' = RecordWebSocketMessage(rec, 1, now, diskOk)
    /\ UNCHANGED <<now, sessVars, diskOk, appVars>>

ClRecordEvent ==
    /\ Len(rec.recs) < MaxCloseRecs
    /\ rec' = RecordEvent(rec, "session_start", "", 1, now, diskOk)
    /\ UNCHANGED <<now, sessVars, diskOk, appVars>>

NextClose ==
    \/ ClRecordInput
    \/ ClRecordOutput
    \/ ClRecordWebSocketMessage
    \/ ClRecordEvent
    \/ RecTickerFires
    \/ RecFlushLoopTick
    \/ RecFlushLoopExit
    \/ RecCloseBegin
    \/ RecCloseFinish

SpecClose == RecInit /\ [][NextClose]_vars

(***************************************************************************)
(* SpecOutput: RecordOutput and the flusher on a disk that fills up and is *)
(* freed again.                                                            *)
(***************************************************************************)
OutRecordOutput ==
    \E n \in 1..MaxRecLen :
        /\ Len(rec.recs) < MaxOutputs
        /\ rec' = RecordOutput(rec, n, now, diskOk)
        /\ UNCHANGED <<now, sessVars, diskOk, appVars>>

\* space is freed: writes to the files succeed again
RecDiskFreed ==
    /\ ~diskOk
    /\ diskOk' = TRUE
    /\ UNCHANGED <<now, sessVars, rec, appVars>>

NextOutput ==
    \/ OutRecordOutput
    \/ RecTickerFires
    \/ RecFlushLoopTick
    \/ RecDiskFull
    \/ RecDiskFreed

SpecOutput == RecInit /\ [][NextOutput]_vars

(***************************************************************************)
(* SpecStamps: RecordInput, RecordWebSocketMessage and RecordEvent called  *)
(* by concurrent tasks while the clock goes on and the flusher runs.  The  *)
(* timestamps of the lines are kept.                                       *)
(***************************************************************************)
StampedStreams == {"keystrokes", "websocket", "events"}

InitStamps ==
    /\ now = 0
    /\ NewSessionState
    /\ rec = [NewRecorder EXCEPT !.keepStamps = TRUE]
    /\ diskOk = TRUE
    /\ AppInit(TRUE, NoBudget)

StRecordInput ==
    \E n \in 1..MaxRecLen :
        /\ Len(rec.recs) < MaxStamped
        /\ rec' = RecordInput(rec, n, now, diskOk)
        /\ UNCHANGED <<now, sessVars, diskOk, appVars>>

StRecordWebSocketMessage ==
    \E n \in 1..MaxRecLen :
        /\ Len(rec.recs) < MaxStamped
        /\ rec' = RecordWebSocketMessage(rec, n, now, diskOk)
        /\ UNCHANGED <<now, sessVars, diskOk, appVars>>

StRecordEvent ==
    \E n \in 1..MaxRecLen :
        /\ Len(rec.recs) < MaxStamped
        /\ rec' = RecordEvent(rec, "session_start", "", n, now, diskOk)
        /\ UNCHANGED <<now, sessVars, diskOk, appVars>>

NextStamps ==
    \/ StRecordInput
    \/ StRecordWebSocketMessage
    \/ StRecordEvent
    \/ RecTickerFires
    \/ RecFlushLoopTick
    \/ RecTick

SpecStamps == InitStamps /\ [][NextStamps]_vars

(***************************************************************************)
(* SpecPTY: Read, Write, Resize and Close called from any number of tasks. *)
(***************************************************************************)
PtyOps == {"read", "write", "resize", "close"}

\* a task calls op and runs it up to the release of p.mu
PtyCallBegin(op) ==
    /\ Len(pty.calls)
         + Cardinality({i \in 1..Len(pty.rets) :
                           pty.rets[i].late \/ pty.rets[i].op = "resize"})
         < MaxPtyCalls
    /\ pty' = PtyLocked(pty, op, [Cols |-> 120, Rows |-> 40])
    /\ UNCHANGED <<now, sessVars, recVars, TerminalSize, det, conns, received,
                   budget, finishSignal, shutdown, webVars, engVars>>

\* the task of call i goes on after the unlock and returns
PtyCallEnd(i) ==
    /\ pty.calls[i].pc = "io"
    /\ pty' = PtyUnlocked(pty, i)
    /\ UNCHANGED <<now, sessVars, recVars, TerminalSize, det, conns, received,
                   budget, finishSignal, shutdown, webVars, engVars>>

NextPTY ==
    \/ \E op \in PtyOps : PtyCallBegin(op)
    \/ \E i \in 1..Len(pty.calls) : PtyCallEnd(i)
    \/ ShellExits

SpecPTY == RecInit /\ [][NextPTY]_vars

\* a call past its unlock goes on: file.Close, Process.Kill and file.Write
\* do not wait; file.Read waits for output of the shell, which may never
\* come, and returns without it once the descriptor is closed or the shell
\* is gone
FairPTY ==
    /\ SpecPTY
    /\ \A i \in 1..MaxPtyCalls :
          WF_vars(/\ i <= Len(pty.calls)
                  /\ pty.calls[i].op = "read" => (pty.fdCloses > 0 \/ pty.shellExited)
                  /\ PtyCallEnd(i))

(***************************************************************************)
(* SpecRate: the RateLimiter called on its own while the clock advances.   *)
(* `received` keeps every admission with what CheckInput returned.         *)
(***************************************************************************)
\* len(data) of an admission: one keystroke, or a chunk of the whole limit
RateLengths == {1, MaxCharsPerSecond}

\* how far time.Now() moves between two calls: one tick, or one tick less
\* than the window
RateSteps == {1, windowSize - 1}

InitRate ==
    /\ now = 0
    /\ NewSessionState
    /\ rec = NewRecorder
    /\ diskOk = TRUE
    /\ AppInit(TRUE, NoBudget)

RateLimiterCheckInput(length) ==
    /\ Len(received) < MaxRateCalls
    /\ LET r == RateCheckInput(det.events, length, now)
       IN  /\ det' = [det EXCEPT !.events = r.events]
           /\ received' = Append(received,
                                 [t |-> now, length |-> length,
                                  allowed |-> r.allowed,
                                  currentRate |-> r.currentRate,
                                  violation |-> r.violation])
    /\ UNCHANGED <<now, sessVars, recVars, TerminalSize, pty, conns, budget,
                   finishSignal, shutdown, webVars, engVars>>

RateTick(d) ==
    /\ now + d <= RateMaxTime
    /\ now' = now + d
    /\ UNCHANGED <<sessVars, recVars, appVars>>

NextRate ==
    \/ \E length \in RateLengths : RateLimiterCheckInput(length)
    \/ \E d \in RateSteps : RateTick(d)

SpecRate == InitRate /\ [][NextRate]_vars

(***************************************************************************)
(* SpecBurst: the BurstDetector called on its own while the clock advances. *)
(***************************************************************************)
\* len(data) of an admission: a small chunk, a chunk of the whole limit, or
\* a chunk one character over the limit
BurstLengths == {5, maxCharsInBurst, maxCharsInBurst + 1}

BurstDetectorCheckBurst(length) ==
    /\ Len(received) < MaxBurstCalls
    /\ LET r == CheckBurst(det.burst, length, now)
       IN  /\ det' = [det EXCEPT !.burst = r.b]
           /\ received' = Append(received,
                                 [t |-> now, length |-> length,
                                  isBurst |-> r.isBurst,
                                  burstSize |-> r.burstSize])
    /\ UNCHANGED <<now, sessVars, recVars, TerminalSize, pty, conns, budget,
                   finishSignal, shutdown, webVars, engVars>>

BurstTick ==
    /\ now < BurstMaxTime
    /\ now' = now + 1
    /\ UNCHANGED <<sessVars, recVars, appVars>>

NextBurst ==
    \/ \E length \in BurstLengths : BurstDetectorCheckBurst(length)
    \/ BurstTick

SpecBurst == InitRate /\ [][NextBurst]_vars

(***************************************************************************)
(* The engine serving clients.  Bridge: the upgrades and the two tasks of  *)
(* every connection, with the shell behind them.                           *)
(***************************************************************************)
\* what the shell prints: "a", and a character of two bytes in UTF-8
Chunks == {<<97>>, <<195, 169>>}

\* what a client sends besides its keystrokes
Msgs == {[kind |-> "finish", len |-> 2, event |-> "",
          size |-> [Cols |-> 0, Rows |-> 0]]}

\* the engine right after start, with the inputs b ahead of it
Started(b) ==
    /\ now = 0
    /\ NewSessionState
    /\ rec = NewRecorder
    /\ diskOk = TRUE
    /\ AppInit(TRUE, b)

AppTick == Tick /\ UNCHANGED <<sessVars, recVars, appVars>>

Bridge ==
    \/ HandleUpgrade
    \/ \E c \in 1..Len(conns) : ClientCloses(c)
    \/ ShellExits
    \/ \E c \in 1..Len(conns) : OutRead(c, Chunks)
    \/ \E c \in 1..Len(conns) : OutProcess(c)
    \/ \E c \in 1..Len(conns) : OutEof(c)
    \/ \E c \in 1..Len(conns) : InRead(c, Msgs)
    \/ \E c \in 1..Len(conns) : InProcess(c)
    \/ \E c \in 1..Len(conns) : \E task \in {"out", "inp"} : TaskClose(c, task)
    \/ \E c \in 1..Len(conns) : HandleDone(c)

\* SpecBridge: clients come and go while main waits in its select
InitBridge == Started([conns |-> MaxConn, reads |-> 1, msgs |-> MaxMsgs])

NextBridge ==
    \/ Bridge
    \/ AppTick

SpecBridge == InitBridge /\ [][NextBridge]_vars

\* SpecDone: one connection and its two tasks, no clock
InitDone == Started([conns |-> 1, reads |-> 1, msgs |-> MaxMsgs])

SpecDone == InitDone /\ [][Bridge]_vars

\* SpecReconnect: one client at a time; the next /ws upgrade comes after the
\* Handle call of the previous connection has returned
InitReconnect == Started([conns |-> MaxConn, reads |-> 1, msgs |-> MaxMsgs])

Reconnect ==
    /\ \A c \in 1..Len(conns) : conns[c].h = "returned"
    /\ HandleUpgrade

NextReconnect ==
    \/ Reconnect
    \/ \E c \in 1..Len(conns) : ClientCloses(c)
    \/ ShellExits
    \/ \E c \in 1..Len(conns) : OutRead(c, Chunks)
    \/ \E c \in 1..Len(conns) : OutProcess(c)
    \/ \E c \in 1..Len(conns) : OutEof(c)
    \/ \E c \in 1..Len(conns) : InRead(c, Msgs)
    \/ \E c \in 1..Len(conns) : InProcess(c)
    \/ \E c \in 1..Len(conns) : \E task \in {"out", "inp"} : TaskClose(c, task)
    \/ \E c \in 1..Len(conns) : HandleDone(c)

SpecReconnect == InitReconnect /\ [][NextReconnect]_vars

\* SpecPty: the page is open in up to MaxConn tabs, each with its own /ws
\* connection, and every client types single characters
PtyMsgs == {[kind |-> "text", len |-> 1, event |-> "",
             size |-> [Cols |-> 0, Rows |-> 0]]}

InitPty == Started([conns |-> MaxConn, reads |-> 1, msgs |-> MaxConn])

NextPty ==
    \/ HandleUpgrade
    \/ \E c \in 1..Len(conns) : ClientCloses(c)
    \/ \E c \in 1..Len(conns) : OutRead(c, Chunks)
    \/ \E c \in 1..Len(conns) : OutProcess(c)
    \/ \E c \in 1..Len(conns) : InRead(c, PtyMsgs)
    \/ \E c \in 1..Len(conns) : InProcess(c)
    \/ \E c \in 1..Len(conns) : \E task \in {"out", "inp"} : TaskClose(c, task)
    \/ \E c \in 1..Len(conns) : HandleDone(c)

SpecPty == InitPty /\ [][NextPty]_vars

\* Spec: one client, the shell's output and GET /reconnect
Init == Started([conns |-> 1, reads |-> MaxReads, msgs |-> MaxMsgs])

Next ==
    \/ Bridge
    \/ \E token \in Tokens : ReconnectCheck(token)
    \/ ReconnectRespond
    \/ AppTick

Spec == Init /\ [][Next]_vars

\* SpecEngine: one client, signals, and main from its select to the exit
InitEngine == Started([conns |-> 1, reads |-> 1, msgs |-> MaxMsgs])

Main ==
    \/ MainFinishPath
    \/ MainSignalPath
    \/ MainShutdown
    \/ MainExit

NextEngine ==
    \/ Bridge
    \/ \E c \in 1..Len(conns) : HandleShutdown(c)
    \/ OsSignal
    \/ Main
    \/ AppTick

SpecEngine == InitEngine /\ [][NextEngine]_vars

\* the scheduler runs every task that can take a step, main included, and
\* the clock goes on; clients, the shell and signals are under no obligation
FairSpec ==
    /\ SpecEngine
    /\ WF_vars(Main)
    /\ WF_vars(AppTick)
    /\ \A c \in 1..MaxConn :
          /\ WF_vars(c <= Len(conns) /\ OutRead(c, Chunks) /\ PtyReadFails(pty))
          /\ WF_vars(c <= Len(conns) /\ OutProcess(c))
          /\ WF_vars(c <= Len(conns) /\ OutEof(c))
          /\ WF_vars(c <= Len(conns) /\ InRead(c, Msgs) /\ conns[c].sock = "closed")
          /\ WF_vars(c <= Len(conns) /\ InProcess(c))
          /\ WF_vars(c <= Len(conns) /\ TaskClose(c, "out"))
          /\ WF_vars(c <= Len(conns) /\ TaskClose(c, "inp"))
          /\ WF_vars(c <= Len(conns) /\ HandleDone(c))
          /\ WF_vars(c <= Len(conns) /\ HandleShutdown(c))

(***************************************************************************)
(* SpecInbound: one client typing, pasting and reporting; the inbound task. *)
(***************************************************************************)
\* keystrokes of one byte, chunks one byte over the paste limit, and the
\* report the page sends when it blocks a paste itself
InputMsgs ==
    {[kind |-> k, len |-> n, event |-> "", size |-> [Cols |-> 0, Rows |-> 0]] :
        k \in {"text", "binary"}, n \in {1, pasteLimit + 1}}
    \cup {[kind |-> "anticheat", len |-> 2, event |-> "paste_blocked",
           size |-> [Cols |-> 0, Rows |-> 0]],
          [kind |-> "resize", len |-> 2, event |-> "",
           size |-> [Cols |-> 120, Rows |-> 40]],
          [kind |-> "unknown", len |-> 2, event |-> "",
           size |-> [Cols |-> 0, Rows |-> 0]]}

InitInbound == Started([conns |-> 1, reads |-> 0, msgs |-> MaxInputs])

NextInbound ==
    \/ HandleUpgrade
    \/ \E c \in 1..Len(conns) : ClientCloses(c)
    \/ \E c \in 1..Len(conns) : InRead(c, InputMsgs)
    \/ \E c \in 1..Len(conns) : InProcess(c)
    \/ \E c \in 1..Len(conns) : \E task \in {"out", "inp"} : TaskClose(c, task)
    \/ \E c \in 1..Len(conns) : HandleDone(c)
    \/ AppTick

SpecInbound == InitInbound /\ [][NextInbound]_vars

(***************************************************************************)
(* SpecShutdown: one client typing while the shell exits, a signal arrives *)
(* and main finalizes, with the recorder's flusher running.                *)
(***************************************************************************)
\* a keystroke, and the finish button
KeyMsgs ==
    {[kind |-> "text", len |-> 1, event |-> "", size |-> [Cols |-> 0, Rows |-> 0]],
     [kind |-> "finish", len |-> 2, event |-> "", size |-> [Cols |-> 0, Rows |-> 0]]}

InitShutdown == Started([conns |-> 1, reads |-> 1, msgs |-> MaxKeys])

NextShutdown ==
    \/ HandleUpgrade
    \/ \E c \in 1..Len(conns) : ClientCloses(c)
    \/ ShellExits
    \/ \E c \in 1..Len(conns) : OutRead(c, Chunks)
    \/ \E c \in 1..Len(conns) : OutProcess(c)
    \/ \E c \in 1..Len(conns) : OutEof(c)
    \/ \E c \in 1..Len(conns) : InRead(c, KeyMsgs)
    \/ \E c \in 1..Len(conns) : InProcess(c)
    \/ \E c \in 1..Len(conns) : \E task \in {"out", "inp"} : TaskClose(c, task)
    \/ \E c \in 1..Len(conns) : HandleDone(c)
    \/ \E c \in 1..Len(conns) : HandleShutdown(c)
    \/ OsSignal
    \/ Main
    \/ RecTickerFires
    \/ RecFlushLoopTick
    \/ RecFlushLoopExit

SpecShutdown == InitShutdown /\ [][NextShutdown]_vars

(***************************************************************************)
(* SpecManager: the Manager's methods called in any order, by root or by   *)
(* another user.                                                           *)
(***************************************************************************)
InitManager ==
    /\ now = 0
    /\ NewSessionState
    /\ rec = NewRecorder
    /\ diskOk = TRUE
    /\ \E root \in BOOLEAN : AppInit(root, NoBudget)

MgrSetMetadata ==
    /\ mgr' = SetMetadata(mgr, "interrupted")
    /\ UNCHANGED <<now, sessVars, recVars, brVars, webVars, engine>>

MgrSaveMetadata ==
    /\ mgr' = SaveMetadata(mgr, now)
    /\ UNCHANGED <<now, sessVars, recVars, brVars, webVars, engine>>

MgrError ==
    /\ mgr' = Error(mgr, now)
    /\ UNCHANGED <<now, sessVars, recVars, brVars, webVars, engine>>

MgrFinalize ==
    /\ mgr' = Finalize(mgr, rec.file)
    /\ UNCHANGED <<now, sessVars, recVars, brVars, webVars, engine>>

MgrComplete ==
    /\ mgr.completes < MaxCompletes
    /\ mgr' = Complete(mgr, rec.file, now)
    /\ UNCHANGED <<now, sessVars, recVars, brVars, webVars, engine>>

NextManager ==
    \/ MgrSetMetadata
    \/ MgrSaveMetadata
    \/ MgrError
    \/ MgrFinalize
    \/ MgrComplete
    \/ AppTick

SpecManager == InitManager /\ [][NextManager]_vars

(***************************************************************************)
(* SpecHash: finalization when some of the recording files cannot be read *)
(* (an I/O error, a file replaced by a directory, a file of another user). *)
(***************************************************************************)
\* from now on os.Open or the read of file f fails
MgrUnreadable(f) ==
    /\ f \notin mgr.unreadable
    /\ mgr' = [mgr EXCEPT !.unreadable = @ \cup {f}]
    /\ UNCHANGED <<now, sessVars, recVars, brVars, webVars, engine>>

NextHash ==
    \/ \E f \in HashedFiles : MgrUnreadable(f)
    \/ MgrFinalize
    \/ MgrComplete
    \/ AppTick

SpecHash == InitManager /\ [][NextHash]_vars

(***************************************************************************)
(* SpecOrder: the bodies of the two loops of Handle taken one call at a    *)
(* time, so that the calls of the inbound task and of the outbound task   *)
(* interleave. One client sends plain text frames; the clock stands still, *)
(* so every chunk after the first comes within the detector's windows.     *)
(***************************************************************************)
\* a keystroke, and a chunk one character over the paste limit
OrderMsgs ==
    {[kind |-> "text", len |-> n, event |-> "", size |-> [Cols |-> 0, Rows |-> 0]] :
        n \in {1, pasteLimit + 1}}

InitOrder == Started([conns |-> 1, reads |-> MaxOrderChunks, msgs |-> MaxOrderChunks])

\* inbound task: h.recorder.RecordWebSocketMessage("client->server", ...)
OrdRecordWebSocketMessage(c) ==
    /\ Running
    /\ conns[c].inp = "process"
    /\ rec' = RecordWebSocketMessage(rec, conns[c].msg.len, now, diskOk)
    /\ conns' = [conns EXCEPT ![c].inp = "check"]
    /\ UNCHANGED <<now, sessVars, diskOk, TerminalSize, det, pty, received, budget,
                   finishSignal, shutdown, webVars, engVars>>

\* inbound task: h.detector.CheckInput(data); a blocked chunk is dropped
OrdCheckInput(c) ==
    /\ Running
    /\ conns[c].inp = "check"
    /\ LET m == conns[c].msg
           ci == CheckInput(det, m.len, now)
       IN  /\ det' = ci.d
           /\ conns' = IF ci.allowed
                       THEN [conns EXCEPT ![c].inp = "events",
                                          ![c].msg = [kind |-> m.kind, len |-> m.len,
                                                      event |-> m.event, size |-> m.size,
                                                      violations |-> ci.violations]]
                       ELSE [conns EXCEPT ![c].inp = "read", ![c].msg = NoMsg]
    /\ UNCHANGED <<now, sessVars, recVars, TerminalSize, pty, received, budget,
                   finishSignal, shutdown, webVars, engVars>>

\* inbound task: RecordEvent("anticheat_violation", ...) for each violation
OrdRecordViolations(c) ==
    /\ Running
    /\ conns[c].inp = "events"
    /\ rec' = RecordViolations(rec, conns[c].msg.violations, now, diskOk)
    /\ conns' = [conns EXCEPT ![c].inp = "keys"]
    /\ UNCHANGED <<now, sessVars, diskOk, TerminalSize, det, pty, received, budget,
                   finishSignal, shutdown, webVars, engVars>>

\* inbound task: h.recorder.RecordInput(data)
OrdRecordInput(c) ==
    /\ Running
    /\ conns[c].inp = "keys"
    /\ rec' = RecordInput(rec, conns[c].msg.len, now, diskOk)
    /\ conns' = [conns EXCEPT ![c].inp = "write"]
    /\ UNCHANGED <<now, sessVars, diskOk, TerminalSize, det, pty, received, budget,
                   finishSignal, shutdown, webVars, engVars>>

\* inbound task: h.pty.Write(data)
OrdPtyWrite(c) ==
    /\ Running
    /\ conns[c].inp = "write"
    /\ LET m == conns[c].msg
           w == PtyWrite(pty, m.len, "text")
       IN  /\ pty' = w.p
           /\ received' = Append(received, [kind |-> m.kind, len |-> m.len,
                                            event |-> m.event, size |-> m.size])
           /\ conns' = IF w.err
                       THEN [conns EXCEPT ![c] = SelectDone([@ EXCEPT !.msg = NoMsg],
                                                            "inp", "pty")]
                       ELSE [conns EXCEPT ![c].inp = "read", ![c].msg = NoMsg]
    /\ UNCHANGED <<now, sessVars, recVars, TerminalSize, det, budget, finishSignal,
                   shutdown, webVars, engVars>>

OrdRecordOutputMutNoBuffer(c) ==
    /\ Running
    /\ conns[c].out = "process"
    /\ rec' = RecordOutput(rec, Len(conns[c].buf), now, diskOk)
    /\ conns' = [conns EXCEPT ![c].out = "send"]
    /\ UNCHANGED <<now, sessVars, diskOk, TerminalSize, det, pty, received, budget,
                   finishSignal, shutdown, webVars, engVars>>

\* outbound task: h.recorder.RecordOutput(buf[:n])
OrdRecordOutput(c) ==
    /\ Running
    /\ conns[c].out = "process"
    /\ rec' = RecordOutput(rec, Len(conns[c].buf), now, diskOk)
    /\ conns' = [conns EXCEPT ![c].out = "buffer"]
    /\ UNCHANGED <<now, sessVars, diskOk, TerminalSize, det, pty, received, budget,
                   finishSignal, shutdown, webVars, engVars>>

\* outbound task: h.sessionState.UpdateTerminalBuffer(buf[:n])
OrdUpdateTerminalBuffer(c) ==
    /\ Running
    /\ conns[c].out = "buffer"
    /\ UpdateTerminalBuffer(conns[c].buf)
    /\ conns' = [conns EXCEPT ![c].out = "send"]
    /\ UNCHANGED <<now, recVars, TerminalSize, det, pty, received, budget,
                   finishSignal, shutdown, webVars, engVars, lockVars>>

\* outbound task: conn.WriteMessage(websocket.TextMessage, buf[:n])
OrdWriteMessage(c) ==
    /\ Running
    /\ conns[c].out = "send"
    /\ conns' = IF conns[c].sock = "open"
                THEN [conns EXCEPT ![c].out = "read", ![c].buf = <<>>]
                ELSE [conns EXCEPT ![c] = SelectDone([@ EXCEPT !.buf = <<>>],
                                                     "out", "socket")]
    /\ UNCHANGED <<now, sessVars, recVars, TerminalSize, det, pty, received, budget,
                   finishSignal, shutdown, webVars, engVars>>

NextOrder ==
    \/ HandleUpgrade
    \/ \E c \in 1..Len(conns) : ClientCloses(c)
    \/ \E c \in 1..Len(conns) : OutRead(c, Chunks)
    \/ \E c \in 1..Len(conns) : OrdRecordOutput(c)
    \/ \E c \in 1..Len(conns) : OrdUpdateTerminalBuffer(c)
    \/ \E c \in 1..Len(conns) : OrdWriteMessage(c)
    \/ \E c \in 1..Len(conns) : InRead(c, OrderMsgs)
    \/ \E c \in 1..Len(conns) : OrdRecordWebSocketMessage(c)
    \/ \E c \in 1..Len(conns) : OrdCheckInput(c)
    \/ \E c \in 1..Len(conns) : OrdRecordViolations(c)
    \/ \E c \in 1..Len(conns) : OrdRecordInput(c)
    \/ \E c \in 1..Len(conns) : OrdPtyWrite(c)
    \/ \E c \in 1..Len(conns) : \E task \in {"out", "inp"} : TaskClose(c, task)
    \/ \E c \in 1..Len(conns) : HandleDone(c)

SpecOrder == InitOrder /\ [][NextOrder]_vars

(***************************************************************************)
(* SpecRun: one client sends a run of small chunks of typed input, the     *)
(* whole run within one burst window.                                      *)
(***************************************************************************)
\* a text frame of 5 characters that is not a JSON message
RunMsgs == {[kind |-> "text", len |-> 5, event |-> "",
             size |-> [Cols |-> 0, Rows |-> 0]]}

InitRun == Started([conns |-> 1, reads |-> 0, msgs |-> RunChunks])

\* the clock advances while the run lasts, by no more than the burst window
RunTick ==
    /\ now < burstWindow
    /\ now' = now + 1
    /\ UNCHANGED <<sessVars, recVars, appVars>>

NextRun ==
    \/ HandleUpgrade
    \/ \E c \in 1..Len(conns) : ClientCloses(c)
    \/ \E c \in 1..Len(conns) : InRead(c, RunMsgs)
    \/ \E c \in 1..Len(conns) : InProcess(c)
    \/ \E c \in 1..Len(conns) : \E task \in {"out", "inp"} : TaskClose(c, task)
    \/ \E c \in 1..Len(conns) : HandleDone(c)
    \/ RunTick

SpecRun == InitRun /\ [][NextRun]_vars

(***************************************************************************)
(* SpecExtract: keystrokes are recorded and reach keystrokes.log, then     *)
(* ExtractCommands reads the file.  In this specification the keystrokes   *)
(* stream of `rec` holds the bytes of the file, `received` the chunks      *)
(* recorded with their timestamps, mgr.commandsLog what ExtractCommands    *)
(* wrote.                                                                  *)
(***************************************************************************)
\* what the client types with its Enter key: l, s, space, -, l, a, CR
TypedLs == <<108, 115, 32, 45, 108, 97, 13>>

\* chunks of input: a letter, Enter, DEL, Ctrl-C, Ctrl-U, a quote, a
\* backslash, a byte that is no character, an accented letter, a command
\* with its Enter, an erased letter, a cancelled letter, and eight letters
KeyChunks ==
    {<<97>>, <<13>>, <<10>>, <<127>>, <<3>>, <<21>>, <<34>>, <<92>>, <<195>>,
     <<195, 169>>, <<97, 98, 13>>, <<98, 8>>, <<98, 3, 97>>,
     <<97, 97, 97, 97, 97, 97, 97, 97>>}

InitExtract ==
    /\ now = 0
    /\ NewSessionState
    /\ rec = NewRecorder
    /\ diskOk = TRUE
    /\ AppInit(TRUE, NoBudget)

\* the commands are extracted once, after the recorder is closed
Extracted == mgr.mode["commands.log"] # "none"

\* RecordInput(data) at time now, the line reaching keystrokes.log
KeyRecordInput(data) ==
    /\ ~Extracted
    /\ rec' = [rec EXCEPT !.file["keystrokes"] = @ \o KeystrokeLine(now, data)]
    /\ received' = Append(received, [ms |-> now, data |-> data])
    /\ UNCHANGED <<now, sessVars, diskOk, TerminalSize, det, pty, conns, budget,
                   finishSignal, shutdown, webVars, engVars>>

\* the client types the next key of "ls -la" and Enter
KeyTyped ==
    /\ Len(received) < Len(TypedLs)
    /\ \A i \in 1..Len(received) : received[i].data = <<TypedLs[i]>>
    /\ KeyRecordInput(<<TypedLs[Len(received) + 1]>>)

\* the client sends some other chunk
KeyChunk(data) ==
    /\ Len(received) < MaxKeyLines
    /\ KeyRecordInput(data)

\* main calls terminal.ExtractCommands(sessionDir)
KeyExtractCommands ==
    /\ ~Extracted
    /\ mgr' = [mgr EXCEPT !.commandsLog = ExtractCommands(rec.file["keystrokes"]),
                          !.mode["commands.log"] = "0400"]
    /\ UNCHANGED <<now, sessVars, recVars, brVars, webVars, engine>>

NextExtract ==
    \/ KeyTyped
    \/ \E data \in KeyChunks : KeyChunk(data)
    \/ KeyExtractCommands
    \/ RecTick

SpecExtract == InitExtract /\ [][NextExtract]_vars

(***************************************************************************)
(* SpecAnalysis: a client sends typed input and anti-cheat reports, the    *)
(* flusher writes events.log, and the analysis runs on the file.           *)
(***************************************************************************)
\* a chunk of 21 characters, and the page reporting a paste attempt
AnalysisMsgs ==
    {[kind |-> "text", len |-> pasteLimit + 1, event |-> "",
      size |-> [Cols |-> 0, Rows |-> 0]],
     [kind |-> "anticheat", len |-> 2, event |-> "paste_attempt",
      size |-> [Cols |-> 0, Rows |-> 0]]}

\* what analyzeKeystrokes found: a slow steady typist, or a fast erratic one
TypingStats ==
    {[AverageWPM |-> 60, WPMStdDev |-> 10], [AverageWPM |-> 121, WPMStdDev |-> 51]}

\* the events.log lines on disk: every event line of the model is one byte,
\* the number of its RecordEvent call
EventsOnDisk ==
    [k \in 1..Len(rec.file["events"]) |->
        EventLine(rec.recs[rec.file["events"][k]].tag)]

\* main calls AnalyzeSession(sessionDir)
AnalysisRun(stats) ==
    /\ ~mgr.analysis.done
    /\ mgr' = [mgr EXCEPT !.analysis = AnalyzeSession(stats, EventsOnDisk)]
    /\ UNCHANGED <<now, sessVars, recVars, brVars, webVars, engine>>

InitAnalysis == Started([conns |-> 1, reads |-> 0, msgs |-> MaxInputs])

NextAnalysis ==
    \/ HandleUpgrade
    \/ \E c \in 1..Len(conns) : InRead(c, AnalysisMsgs)
    \/ \E c \in 1..Len(conns) : InProcess(c)
    \/ RecTickerFires
    \/ RecFlushLoopTick
    \/ \E stats \in TypingStats : AnalysisRun(stats)
    \/ AppTick

SpecAnalysis == InitAnalysis /\ [][NextAnalysis]_vars

(***************************************************************************)
(* Claims                                                                  *)
(***************************************************************************)

\* C3: after any sequence of Connect, Disconnect, MarkExpired and clock
\* advances, CanReconnect(t) is true exactly when the state is disconnected,
\* t is the stored token and the time since the last disconnect does not
\* exceed the reconnect window.
C3_CanReconnectIff ==
    \A t \in Tokens :
        CanReconnect(t) <=> /\ State = StateDisconnected
                            /\ t = ReconnectToken
                            /\ now - LastDisconnectTime <= ReconnectWindow

\* a reconnect is still allowed exactly at the end of the window, after a
\* reconnect and a second disconnect
C3_Witness ==
    /\ State = StateDisconnected
    /\ DisconnectCount >= 2
    /\ now - LastDisconnectTime = ReconnectWindow
    /\ CanReconnect(ReconnectToken)

\* C8: the rolling buffer never exceeds its cap and always equals the last
\* min(total, cap) bytes of everything appended, whatever the chunk sizes.
C8_RollingBuffer ==
    /\ Len(TerminalBuffer) <= maxBufferSize
    /\ TerminalBuffer = LastN(appended, Min(Len(appended), maxBufferSize))

\* a single chunk larger than the cap was appended to a non-empty buffer
C8_Witness ==
    /\ Len(lastData) > maxBufferSize
    /\ Len(appended) > Len(lastData)
    /\ Len(TerminalBuffer) = maxBufferSize
    /\ TerminalBuffer # SubSeq(appended, 1, maxBufferSize)

\* the bytes of Record* call number i that reached the file of stream s
OnDisk(s, i) == Count(rec.file[s], i)

\* Record* call number i returned nil and all it wrote is in the files
Persisted(i) ==
    CASE rec.recs[i].op = "input" -> OnDisk("keystrokes", i) = rec.recs[i].len
      [] rec.recs[i].op = "websocket" -> OnDisk("websocket", i) = rec.recs[i].len
      [] rec.recs[i].op = "event" -> OnDisk("events", i) = rec.recs[i].len
      [] rec.recs[i].op = "output" -> /\ OnDisk("timing", i) = 1
                                      /\ OnDisk("terminal", i) = rec.recs[i].len

\* C2: after Close has returned, every record a Record* call accepted
\* without error is in its file (as long as no write to a file failed).
C2_CloseFlushesAll ==
    (rec.closePc = "closed" /\ diskOk) =>
        \A i \in 1..Len(rec.recs) : ~rec.recs[i].err => Persisted(i)

\* C4: a GET /reconnect that presents the stored token when the session has
\* been disconnected for longer than the reconnect window is answered 410.
C4_ExpiredGets410 ==
    (resp.status # 0 /\ resp.token = ReconnectToken /\ resp.late) =>
        resp.status = 410

\* C5: expired is terminal: once the session is expired (state expired, or
\* disconnected for longer than the reconnect window) no step, a fresh /ws
\* upgrade included, makes it active or reconnectable again.
C5_ExpiredIsTerminal == [][IsExpired => IsExpired']_vars

\* C7: GET /reconnect answers 200 exactly when CanReconnect(token) held, the
\* buffer of a 200 answer is the rolling buffer byte for byte, and a token
\* other than the stored one never gets 200.
C7_ReconnectReplaysBuffer ==
    resp.status \notin {0, 400} =>
        /\ resp.status = 200 <=> resp.can
        /\ resp.status = 200 => resp.buffer = resp.rolling
        /\ resp.token # ReconnectToken => resp.status # 200

\* C10: after main has run to its end, metadata.json holds status
\* interrupted if an OS signal ended the engine and completed on a finish.
C10_PersistedStatus ==
    engine.pc = "exited" =>
        /\ engine.path = "signal" => mgr.metadataJson.Status = "interrupted"
        /\ engine.path = "finish" => mgr.metadataJson.Status = "completed"

\* C6: when a client has disconnected and the reconnect window runs out
\* with no reconnection, main eventually leaves its select and finalizes.
C6_ExpiryEndsSession ==
    (State = StateDisconnected /\ now - LastDisconnectTime > ReconnectWindow)
        ~> (engine.pc # "select")

\* inbound chunks of typed input longer than the paste limit
BigChunks ==
    Cardinality({i \in 1..Len(received) :
                    /\ received[i].kind \in {"text", "binary"}
                    /\ received[i].len > pasteLimit})

\* paste_blocked events the inbound path itself put in the event record
PasteBlockedEvents ==
    Cardinality({i \in 1..Len(rec.recs) :
                    /\ rec.recs[i].op = "event"
                    /\ rec.recs[i].tag.desc = "paste_blocked"
                    /\ rec.recs[i].tag.type # "client_anticheat"})

\* C1: no inbound chunk longer than 20 is written to the PTY, and every
\* such chunk leaves exactly one paste_blocked event in the event record.
C1_PasteBlocked ==
    /\ \A i \in 1..Len(pty.written) : pty.written[i].len <= pasteLimit
    /\ PasteBlockedEvents = BigChunks

\* C9: a Complete call on a session already completed returns no error and
\* leaves status, end time, duration, hashes, metadata.json and the file
\* modes as they were.
C9_CompleteIdempotent ==
    [][(mgr.completes >= 1 /\ mgr'.completes = mgr.completes + 1) =>
          (~mgr'.ret /\ Snapshot(mgr') = Snapshot(mgr))]_vars

\* C11: every PTY end-of-stream error a task of the bridge sees raises the
\* finish signal: the failed Read of the outbound task and the failed Write
\* of the inbound task alike.
C11_PtyEofRaisesFinish ==
    [][\A c \in 1..Len(conns) :
          (\/ conns[c].out = "eof" /\ conns'[c].out \in {"close", "exit"}
           \/ conns[c].inp = "process" /\ conns'[c].inp \in {"close", "exit"})
              => finishSignal' = 1]_vars

\* the Handle calls that returned
Returned == {c \in 1..Len(conns) : conns[c].h = "returned"}

\* C12 as stated: a transport error on a connection makes SessionState
\* disconnected, Disconnect being called exactly once for that connection
\* when its Handle call returns, and it does not end the session: the broker
\* stays as it is, no finish signal is raised and CanReconnect(stored token)
\* holds.
C12_TransportErrorDisconnects ==
    [][\A c \in 1..Len(conns) :
          (conns[c].why = "socket" /\ conns[c].h = "wait"
              /\ conns'[c].h = "returned") =>
             /\ State' = StateDisconnected
             /\ DisconnectCount' = DisconnectCount + 1
             /\ pty' = pty
             /\ finishSignal' = finishSignal
             /\ CanReconnect(ReconnectToken)']_vars

\* C12, amended: as long as the engine has not broadcast its shutdown, the
\* Handle call of a connection with a transport error returns through one
\* Disconnect, which leaves SessionState disconnected and reconnectable; the
\* task that saw the error leaves the broker and the finish signal alone;
\* Disconnect is never called more often than Handle calls have returned,
\* and CanReconnect(stored token) holds for as long as the state stays
\* disconnected and the window has not elapsed.
C12_TransportErrorDisconnectsUnlessShutdown ==
    /\ [](DisconnectCount <= Cardinality(Returned))
    /\ []((State = StateDisconnected /\ now - LastDisconnectTime <= ReconnectWindow)
            => CanReconnect(ReconnectToken))
    /\ [][\A c \in 1..Len(conns) :
             /\ (conns[c].why = "" /\ conns'[c].why = "socket") =>
                   (pty' = pty /\ finishSignal' = finishSignal)
             /\ (conns[c].why = "socket" /\ conns[c].h = "wait"
                   /\ conns'[c].h = "returned" /\ ~shutdown) =>
                   /\ State' = StateDisconnected
                   /\ DisconnectCount' = DisconnectCount + 1
                   /\ pty' = pty
                   /\ finishSignal' = finishSignal
                   /\ CanReconnect(ReconnectToken)']_vars

\* a client dropped its socket in a running session: Handle has returned
\* through Disconnect, the broker is open, no finish signal is pending and
\* the window is at its last instant
C12_Witness ==
    /\ \E c \in Returned : conns[c].why = "socket"
    /\ ~shutdown
    /\ engine.pc = "select"
    /\ DisconnectCount = 1
    /\ State = StateDisconnected
    /\ now - LastDisconnectTime = ReconnectWindow
    /\ ~pty.closed
    /\ finishSignal = 0
    /\ CanReconnect(ReconnectToken)

\* the tasks that raised the finish signal: an inbound task that handled a
\* finish message, an outbound task that saw the PTY's end of stream
FinishRaises ==
    Cardinality({i \in 1..Len(received) : received[i].kind = "finish"})
        + Cardinality({c \in 1..Len(conns) :
                          conns[c].outErr = "pty"})

\* C13: the finish signal is a one-shot latch: a task that is about to raise
\* it can always take its step, whatever the state of the signal, at most
\* one signal is pending, and main runs its finalization at most once
\* however often the signal is raised.
C13_FinishLatch ==
    /\ finishSignal \in {0, 1}
    /\ mgr.completes <= 1
    /\ \A c \in 1..Len(conns) :
          /\ (Running /\ conns[c].out = "eof") => ENABLED OutEof(c)
          /\ (Running /\ conns[c].inp = "process") => ENABLED InProcess(c)

\* the signal was raised twice, the second time after main had consumed the
\* first, and main has finalized once and is about to exit
C13_Witness ==
    /\ FinishRaises >= 2
    /\ finishSignal = 1
    /\ mgr.completes = 1
    /\ engine.path = "finish"
    /\ engine.pc = "shutdown"

\* C16: Recorder.Close runs its close sequence exactly once however often
\* and however concurrently it is called, and once the recorder is closed
\* no call writes to a buffer or a file: Flush returns nil and every Record*
\* call returns an error.
C16_CloseOnceThenInert ==
    /\ [](rec.closeRuns <= 1 /\ (rec.closed <=> rec.closeRuns = 1))
    /\ [][rec.closed =>
             /\ rec'.writer = rec.writer
             /\ rec'.file = rec.file
             /\ Len(rec'.recs) > Len(rec.recs) => rec'.ret.err
             /\ (rec.tickPending /\ ~rec'.tickPending) =>
                   rec'.ret = [op |-> "flush", err |-> FALSE]]_vars

\* a second Close returned while the first was still running, a Record*
\* call was refused, and accepted data is still in a buffer
C16_Witness ==
    /\ rec.closePc = "closing"
    /\ rec.ret.op = "close"
    /\ rec.closeRuns = 1
    /\ \E i \in 1..Len(rec.recs) : rec.recs[i].err
    /\ \E s \in Streams : rec.writer[s].buf # <<>>

\* the Close call that got past the test of p.closed has finished
PtyCloseDone ==
    \E i \in 1..Len(pty.calls) : pty.calls[i].op = "close" /\ pty.calls[i].pc = "done"

\* C15: the PTY only moves from open to closed; every Close returns nil and
\* the descriptor is closed and the child killed exactly once however many
\* Close calls there are; a Read or Write that starts on a closed PTY
\* returns 0 bytes and EOF, a Resize that starts on it returns an error, and
\* none of them uses the descriptor.
C15_BrokerCloseIdempotent ==
    /\ [][pty.closed => pty'.closed]_vars
    /\ [](pty.fdCloses <= 1 /\ pty.kills <= 1)
    /\ [](PtyCloseDone => (pty.fdCloses = 1 /\ pty.kills = 1))
    /\ [](\A i \in 1..Len(pty.rets) :
            LET r == pty.rets[i]
            IN  /\ r.op = "close" => r.err = "nil"
                /\ r.late => ~r.touched
                /\ (r.late /\ r.op \in {"read", "write"}) =>
                      (r.n = 0 /\ r.err = "EOF")
                /\ (r.late /\ r.op = "resize") => r.err # "nil")

\* a second Close returned while the first was between its unlock and
\* file.Close, then a Write and a Resize started and failed
C15_Witness ==
    /\ pty.closed
    /\ pty.fdCloses = 0
    /\ \E i, j, k \in 1..Len(pty.rets) :
          /\ pty.rets[i].op = "close" /\ pty.rets[i].late
          /\ pty.rets[j].op = "write" /\ pty.rets[j].late
          /\ pty.rets[k].op = "resize" /\ pty.rets[k].late

\* the steps of a shutdown path, in the order claimed
FinalizationOrder == FinalizeCalls \o <<"Sleep", "server.Shutdown">>

\* C14: on the finish path and on the signal path main closes the broker,
\* closes the recorder, extracts the commands, runs the analysis, calls
\* Complete, waits and shuts the HTTP server down, in this order; each is
\* done at most once (what main calls after them are the deferred Close
\* calls, which find the broker and the recorder closed); and when the
\* hashes are taken the recorder is closed and commands.log is written.
C14_FinalizationOrder ==
    LET n == Min(Len(engine.steps), Len(FinalizationOrder))
    IN  /\ SubSeq(engine.steps, 1, n) = SubSeq(FinalizationOrder, 1, n)
        /\ \A i \in (n + 1)..Len(engine.steps) :
              engine.steps[i] \in {"pty.Close", "recorder.Close"}
        /\ pty.fdCloses <= 1
        /\ pty.kills <= 1
        /\ rec.closeRuns <= 1
        /\ mgr.completes <= 1
        /\ DOMAIN mgr.FileHashes # {} =>
              /\ rec.closePc = "closed"
              /\ "commands.log" \in DOMAIN mgr.FileHashes
              /\ mgr.FileHashes["commands.log"] = hashFile(mgr.commandsLog)

\* main has run the signal path to its return, with a client that typed
\* and a shell that printed before
C14_Witness ==
    /\ engine.pc = "exited"
    /\ engine.path = "signal"
    /\ Len(engine.steps) > Len(FinalizationOrder)
    /\ pty.fdCloses = 1
    /\ rec.closeRuns = 1
    /\ mgr.completes = 1
    /\ rec.recs # <<>>

\* the bytes now in file f of the session directory
FileContent(f) ==
    IF f = "commands.log" THEN mgr.commandsLog ELSE rec.file[StreamOf(f)]

\* main's Complete has run and metadata.json says completed
Completed == mgr.completes >= 1 /\ mgr.metadataJson.Status = "completed"

\* C19: once finalization has ended with status completed, file_hashes in
\* metadata.json holds, for each of the five recording logs and for
\* commands.log if it exists, the SHA-256 of what the file holds from then
\* on: nothing is written to a hashed file after its hash was taken.
C19_HashesOfFinalContent ==
    Completed =>
        \A f \in HashedFiles :
            (f = "commands.log" => mgr.mode[f] # "none") =>
                /\ f \in DOMAIN mgr.metadataJson.FileHashes
                /\ mgr.metadataJson.FileHashes[f] = hashFile(FileContent(f))

\* the session is completed with keystrokes on disk and in commands.log,
\* and a Record* call arrived after the hashes were taken
C19_Witness ==
    /\ Completed
    /\ rec.file["keystrokes"] # <<>>
    /\ mgr.commandsLog # <<>>
    /\ \E i \in 1..Len(rec.recs) : rec.recs[i].err

RECURSIVE SumCounts(_)
SumCounts(ids) ==
    IF ids = <<>> THEN 0 ELSE rec.recs[ids[1]].len + SumCounts(Tail(ids))

\* the RecordOutput calls with payload bytes in terminal.log
ChunksOnDisk == {rec.file["terminal"][i] : i \in 1..Len(rec.file["terminal"])}

\* C17: after RecordOutput calls, failed ones included, and a flush that
\* wrote the timing stream out, timing.log has as many lines as terminal.log
\* has chunks, and the byte counts of its lines add up to the size of
\* terminal.log.
C17_TimingPairsTerminal ==
    (rec.ret.op = "flush" /\ ~rec.closed /\ ~rec.writer["timing"].err) =>
        /\ Len(rec.file["timing"]) = Cardinality(ChunksOnDisk)
        /\ SumCounts(rec.file["timing"]) = Len(rec.file["terminal"])

\* the bytes of stream s written so far, in the file and in the buffer
Written(s) == rec.file[s] \o rec.writer[s].buf

\* C18: in keystrokes.log, websocket.log and events.log the timestamp of a
\* line is never smaller than that of the line before it, and the bytes of
\* a line are never mixed with those of another: every line is there whole
\* and the lines follow each other in the order of the calls, whatever the
\* order of the callers and the flusher.
C18_StreamsOrdered ==
    \A s \in StampedStreams :
        /\ \A i \in 1..(Len(rec.stamps[s]) - 1) :
              rec.stamps[s][i] <= rec.stamps[s][i + 1]
        /\ \A i, j \in 1..Len(Written(s)) :
              i < j => Written(s)[i] <= Written(s)[j]
        /\ \A i \in 1..Len(rec.recs) :
              Count(Written(s), i) \in {0, rec.recs[i].len}

\* two lines of one stream with different timestamps, the first flushed to
\* the file and the second still in the buffer, a line of another stream
\* recorded between them
C18_Witness ==
    \E s \in StampedStreams :
        /\ Len(rec.stamps[s]) = 2
        /\ rec.stamps[s][1] < rec.stamps[s][2]
        /\ rec.file[s] # <<>>
        /\ rec.writer[s].buf # <<>>
        /\ Len(rec.recs) = 3
        /\ rec.recs[2].op # rec.recs[1].op
        /\ rec.recs[3].op = rec.recs[1].op

\* the sum of the length fields of the admissions of h with index in S
RECURSIVE SumAdmitted(_, _)
SumAdmitted(h, S) ==
    IF S = {} THEN 0
    ELSE LET j == CHOOSE x \in S : TRUE
         IN  h[j].length + SumAdmitted(h, S \ {j})

\* the admissions up to the i-th whose timestamp is strictly later than
\* one window before the i-th
InWindow(h, i) == {j \in 1..i : h[j].t > h[i].t - windowSize}

\* C21: after any sequence of RateLimiter.CheckInput admissions the reported
\* currentRate is the sum of the lengths of the admitted events whose
\* timestamp is strictly later than now - 1 s, the one just admitted
\* included; no older event is retained; violation is exactly
\* currentRate > MaxCharsPerSecond; allowed is always true.
C21_RateIsWindowSum ==
    /\ \A i \in 1..Len(received) :
          /\ received[i].currentRate = SumAdmitted(received, InWindow(received, i))
          /\ received[i].violation = (received[i].currentRate > MaxCharsPerSecond)
          /\ received[i].allowed
    /\ Len(received) > 0 =>
          LET n == Len(received)
          IN  /\ \A k \in 1..Len(det.events) :
                    det.events[k].Timestamp > received[n].t - windowSize
              /\ Len(det.events) = Cardinality(InWindow(received, n))

\* an admission exactly one window after the first one no longer counts the
\* first, one tick earlier an admission reported a violation
C21_Witness ==
    /\ Len(received) >= 3
    /\ \E i \in 1..Len(received) : received[i].violation
    /\ \E i \in 2..Len(received) :
          /\ received[i].t = received[1].t + windowSize
          /\ received[i].currentRate < SumAdmitted(received, 1..i)
          /\ Len(det.events) < Len(received)

\* C22: a CheckBurst admission that is the first one, or that arrives
\* strictly more than burstWindow after the previous admission, reports
\* burstChars equal to its own length; an admission within burstWindow of
\* the previous one, exactly at the window included, reports the previous
\* burstChars plus its own length.
C22_BurstAccumulates ==
    /\ \A i \in 1..Len(received) :
          IF i = 1 \/ received[i].t - received[i - 1].t > burstWindow
          THEN received[i].burstSize = received[i].length
          ELSE received[i].burstSize
                 = received[i - 1].burstSize + received[i].length
    /\ Len(received) > 0 =>
          det.burst.burstChars = received[Len(received)].burstSize

\* one admission exactly at the window went on with the burst, a later one
\* one tick past the window started again
C22_Witness ==
    \E i, j \in 2..Len(received) :
        /\ received[i].t - received[i - 1].t = burstWindow
        /\ received[i].burstSize > received[i].length
        /\ j > i
        /\ received[j].t - received[j - 1].t = burstWindow + 1
        /\ received[j].burstSize = received[j].length

\* paste_attempt events the inbound path put in the event record
PasteAttemptEvents ==
    {i \in 1..Len(rec.recs) :
        /\ rec.recs[i].op = "event"
        /\ rec.recs[i].tag.type = "anticheat_violation"
        /\ rec.recs[i].tag.desc = "paste_attempt"}

\* the keystroke records, one for every chunk that passed CheckInput
InputRecords == {i \in 1..Len(rec.recs) : rec.recs[i].op = "input"}

\* C23: when a client sends a run of small chunks in quick succession (10
\* chunks of 5 characters, each within the burst window of the previous
\* one), the first admission is not a burst, a later admission reports a
\* burst with burstChars > 30, exactly one paste_attempt critical event is
\* recorded for the run, and every chunk is still forwarded to the PTY.
C23_BurstRunOneEvent ==
    Len(received) = RunChunks =>
        /\ \A i \in PasteAttemptEvents : \E j \in InputRecords : j < i
        /\ PasteAttemptEvents # {}
        /\ det.burst.burstChars > maxCharsInBurst
        /\ Cardinality(PasteAttemptEvents) = 1
        /\ Len(pty.written) = RunChunks

\* the recorded keystrokes as one sequence of keys, each with the
\* timestamp of its chunk
RECURSIVE Keys(_)
Keys(chunks) ==
    IF chunks = <<>> THEN <<>>
    ELSE [i \in 1..Len(chunks[1].data) |->
             [ms |-> chunks[1].ms, ch |-> chunks[1].data[i]]]
         \o Keys(Tail(chunks))

\* the reference line editor after the first n keys of ks: its line, and
\* the lines committed
RECURSIVE Editor(_, _)
Editor(ks, n) ==
    IF n = 0 THEN [line |-> <<>>, committed |-> <<>>]
    ELSE LET e == Editor(ks, n - 1)
             k == ks[n]
         IN  IF k.ch \in 32..126 THEN [e EXCEPT !.line = Append(@, k.ch)]
             ELSE IF k.ch \in {13, 10}
                  THEN IF e.line = <<>> THEN e
                       ELSE [line |-> <<>>,
                             committed |-> Append(e.committed,
                                                  [ms |-> k.ms, text |-> e.line])]
             ELSE IF k.ch \in {8, 127}
                  THEN [e EXCEPT !.line = SubSeq(@, 1, Len(@) - 1)]
             ELSE IF k.ch \in {3, 21} THEN [e EXCEPT !.line = <<>>]
             ELSE e

\* C24: ExtractCommands replays the recorded keystrokes in order through a
\* line buffer (printable ASCII appends; CR or LF commits a non-empty line
\* as '<ms> <text>' and clears it; BS or DEL erases the last character;
\* Ctrl-C or Ctrl-U clears the line; other bytes are ignored): for every
\* keystroke sequence the committed lines are those of this reference
\* editor, and typing "ls -la" followed by CR yields exactly one command
\* line, whose text is ls -la.
C24_ExtractIsLineEditor ==
    Extracted =>
        /\ mgr.commandsLog.lines
             = Editor(Keys(received), Len(Keys(received))).committed
        /\ (/\ Len(Keys(received)) = Len(TypedLs)
            /\ \A i \in 1..Len(TypedLs) : Keys(received)[i].ch = TypedLs[i])
             => /\ Len(mgr.commandsLog.lines) = 1
                /\ mgr.commandsLog.lines[1].text = <<108, 115, 32, 45, 108, 97>>

\* the lines the analysis read whose event the engine logged with severity
\* sev and a type among types
LinesRead(sev, types) ==
    {k \in 1..Len(mgr.analysis.lines) :
        /\ mgr.analysis.lines[k].data.severity = sev
        /\ mgr.analysis.lines[k].data.type \in types}

\* C25: for the events the engine itself records in events.log, the
\* analysis adds 30 to the suspicion score for each critical paste event and
\* 10 for each rapid-input warning, so a session in which the server
\* recorded a paste_attempt critical event never receives the verdict CLEAN.
C25_PasteNeverClean ==
    mgr.analysis.done =>
        /\ mgr.analysis.score
             >= 30 * Cardinality(LinesRead("critical", {"paste_attempt"}))
                  + 10 * Cardinality(LinesRead("warning", {"rapid_input"}))
        /\ (\E k \in LinesRead("critical", {"paste_attempt"}) :
               mgr.analysis.lines[k].eventType = "anticheat_violation")
             => mgr.analysis.verdict # "CLEAN"

\* C26: within one connection the shared done channel is closed at most
\* once under every interleaving of the outbound and the inbound task, also
\* when both detect an error at the same moment: the select with a default
\* case in front of close(done) never lets a task close a closed channel.
C26_DoneClosedOnce ==
    \A c \in 1..Len(conns) : conns[c].closes <= 1

\* the done channel of connection c is closed, or the shutdown is broadcast
\* while the connection is served
Ending(c) ==
    IF c <= Len(conns) THEN conns[c].done \/ shutdown ELSE FALSE

\* both tasks of connection c have returned, or the process has exited
TasksGone(c) ==
    \/ engine.pc = "exited"
    \/ IF c <= Len(conns)
       THEN conns[c].out = "exit" /\ conns[c].inp = "exit"
       ELSE FALSE

\* C27: once the done channel of a connection is closed (broker error,
\* socket error or client close) or the engine has broadcast its shutdown,
\* both the outbound and the inbound task of that connection eventually
\* terminate, whether or not the PTY produces any further output.
C27_TasksTerminate ==
    \A c \in 1..MaxConn : Ending(c) ~> TasksGone(c)

\* the connections whose client is there: Handle is waiting, the socket open
Live == {d \in 1..Len(conns) : conns[d].h = "wait" /\ conns[d].sock = "open"}

\* C28: after a client has disconnected and a new /ws connection is
\* established, every chunk the shell prints from then on is sent to the
\* new connection: the outbound task of the previous connection never takes
\* a chunk from the PTY that is then not delivered to the live client.
C28_OutputReachesLiveClient ==
    [][\A c \in 1..Len(conns) :
          (/\ conns[c].out = "read"
           /\ conns'[c].out = "process"
           /\ conns[c].h = "returned"
           /\ \E d \in Live : d > c)
              => conns[c].sock = "open"]_vars

\* C29: a CanReconnect call always returns: it does not block forever when
\* a writer (Connect, Disconnect, MarkExpired, UpdateTerminalBuffer or
\* UpdateTerminalSize) asks for the SessionState lock after CanReconnect took
\* its read lock and before IsExpired takes the read lock again.
C29_CanReconnectTerminates ==
    (calls.can.pc = "IsExpired" /\ mu.writer = "pending") ~> (calls.can.pc = "idle")

\* the outbound tasks that are in h.pty.Read
PtyReaders == {c \in 1..Len(conns) : conns[c].out = "read"}

\* the inbound tasks that hold input of a client and are in h.pty.Write
PtyWriters ==
    {c \in 1..Len(conns) : conns[c].inp = "process"
                              /\ conns[c].msg.kind \in {"text", "binary"}}

\* C30: at any time at most one task is reading from the PTY and at most
\* one task is writing to it, whatever the sequence of connects, disconnects
\* and reconnects, overlapping /ws upgrades included.
C30_SinglePtyReaderWriter ==
    /\ Cardinality(PtyReaders) <= 1
    /\ Cardinality(PtyWriters) <= 1


\* C31: the session is disconnected only while no WebSocket connection is
\* served: with two overlapping /ws connections, the close of one never
\* leaves the state disconnected, with /reconnect answering 200, while the
\* other connection is still attached to the shell.
C31_DisconnectedOnlyUnattached ==
    Live # {} => /\ State # StateDisconnected
                 /\ ~CanReconnect(ReconnectToken)


\* the shell has exited by itself while main still waits in its select
ShellGone == pty.shellExited /\ ~pty.closed /\ engine.pc = "select"

\* C32: whenever the child shell exits, the finish signal is eventually
\* raised and the engine finalizes the session, also when no WebSocket
\* connection is attached at that moment.
C32_ShellExitFinalizes == ShellGone ~> (mgr.completes >= 1)

\* the number of characters in the writes w to the PTY
RECURSIVE WrittenChars(_)
WrittenChars(w) == IF w = <<>> THEN 0 ELSE w[1].len + WrittenChars(Tail(w))

\* C33: every inbound chunk written to the PTY has first been submitted to
\* Detector.CheckInput and counted by its meters, whatever its frame type:
\* input sent in binary frames does not reach the shell unseen by the
\* detector.
C33_WritesAreChecked == WrittenChars(pty.written) <= det.keystrokeCount

\* C34: MarkExpired is only valid from disconnected: called while the state
\* is active it does not move the state to expired, so the state never goes
\* from active to expired.
C34_NoActiveToExpired == [][State = StateActive => State' # StateExpired]_vars

\* C35: on every admission, one that starts a new burst included (the first
\* admission, or one after a gap longer than burstWindow), CheckBurst
\* reports isBurst = (burstChars > maxCharsInBurst) for the burstChars it
\* returns.
C35_IsBurstIffOverLimit ==
    \A i \in 1..Len(received) :
        received[i].isBurst <=> received[i].burstSize > maxCharsInBurst

\* the characters admitted up to call i of the history h within the last
\* burstWindow before it, call i included
RECURSIVE AdmittedInSpan(_, _, _)
AdmittedInSpan(h, i, j) ==
    IF j = 0 THEN 0
    ELSE (IF h[i].t - h[j].t <= burstWindow THEN h[j].length ELSE 0)
         + AdmittedInSpan(h, i, j - 1)

\* C36: CheckBurst reports isBurst only when more than maxCharsInBurst
\* characters were admitted within a span of burstWindow: the burstChars it
\* reports never exceeds the sum of the lengths admitted during the last
\* burstWindow, so keystrokes each less than burstWindow apart but spread
\* over much more than burstWindow are not reported as a burst.
C36_BurstWithinWindow ==
    \A i \in 1..Len(received) :
        /\ received[i].burstSize <= AdmittedInSpan(received, i, i)
        /\ received[i].isBurst => AdmittedInSpan(received, i, i) > maxCharsInBurst

\* call i is a Read that passed its test of p.closed and is in file.Read
ReadInFlight(i) ==
    IF i <= Len(pty.calls)
    THEN pty.calls[i].op = "read" /\ pty.calls[i].pc = "io"
    ELSE FALSE

\* call i has returned
PtyReturned(i) == IF i <= Len(pty.calls) THEN pty.calls[i].pc = "done" ELSE FALSE

\* call i is a Close past its unlock
CloseInFlight(i) ==
    IF i <= Len(pty.calls)
    THEN pty.calls[i].op = "close" /\ pty.calls[i].pc = "io"
    ELSE FALSE

ExistingFiles(m) ==
    HashedFiles \ (IF m.mode["commands.log"] = "none" THEN {"commands.log"} ELSE {})

\* C38: if hashing one of the recording files fails during Complete (the
\* file is missing or cannot be read for another reason), the file is
\* skipped: Complete still records the hashes of the other files and
\* persists metadata.json with status completed.
C38_HashFailureSkipsFile ==
    [][(mgr.completes = 0 /\ mgr'.completes = 1)
          => /\ mgr'.metadataJson.Status = "completed"
             /\ DOMAIN mgr'.metadataJson.FileHashes
                  = ExistingFiles(mgr) \ mgr.unreadable]_vars

\* the characters passed to the recorder calls of kind op in the history r
RECURSIVE OpChars(_, _)
OpChars(r, op) ==
    IF r = <<>> THEN 0
    ELSE (IF r[1].op = op THEN r[1].len ELSE 0) + OpChars(Tail(r), op)

\* the recorder calls of kind op
OpCalls(op) == {i \in 1..Len(rec.recs) : rec.recs[i].op = op}

\* C39: for an inbound text chunk the side effects come in the order
\* websocket.log record, detector check, violation events, keystroke record,
\* PTY write, and for an outbound chunk in the order PTY read, terminal
\* record, rolling-buffer update, socket send: a chunk is never written to
\* the PTY before its keystroke record call, nor sent to the client before
\* the rolling buffer contains it.
C39_SideEffectOrder ==
    /\ [](/\ OpChars(rec.recs, "websocket") >= det.keystrokeCount
          /\ det.keystrokeCount >= OpChars(rec.recs, "input")
          /\ OpChars(rec.recs, "input") >= WrittenChars(pty.written)
          /\ Cardinality(OpCalls("event")) <= Len(det.log)
          /\ OpChars(rec.recs, "output") >= Len(appended))
    /\ [](\A i \in OpCalls("input") :
            \E j \in OpCalls("websocket") :
                /\ j < i
                /\ rec.recs[j].len = rec.recs[i].len
                /\ \A k \in (j + 1)..(i - 1) : rec.recs[k].op \in {"event", "output"})
    /\ [][\A c \in 1..Len(conns) :
            (conns[c].out = "send" /\ conns'[c].out # "send")
               => /\ Len(appended) >= Len(conns[c].buf)
                  /\ LastN(appended, Len(conns[c].buf)) = conns[c].buf
                  /\ OpChars(rec.recs, "output") >= Len(appended)]_vars

\* two chunks went through the inbound path with violations recorded for
\* the second, and two chunks of shell output were sent to the client
C39_Witness ==
    /\ Len(received) = MaxOrderChunks
    /\ Len(pty.written) = MaxOrderChunks
    /\ OpCalls("event") # {}
    /\ Cardinality(OpCalls("output")) = MaxOrderChunks
    /\ Len(appended) >= MaxOrderChunks
    /\ budget.reads = 0
    /\ Len(conns) = 1
    /\ conns[1].out = "read"
    /\ conns[1].sock = "open"

(***************************************************************************)
(* SpecDetector: the Detector called on its own while the clock advances.  *)
(* `received` keeps every call with what CheckInput returned.              *)
(***************************************************************************)
\* len(data) of a call: one keystroke, a small chunk, or a chunk over the
\* limits of both meters
DetLengths == {1, 5, maxCharsInBurst + 1}

DetectorCheckInput(length) ==
    /\ Len(received) < MaxBurstCalls
    /\ LET r == CheckInput(det, length, now)
       IN  /\ det' = r.d
           /\ received' = Append(received,
                                 [t |-> now, length |-> length,
                                  allowed |-> r.allowed,
                                  violations |-> r.violations])
    /\ UNCHANGED <<now, sessVars, recVars, TerminalSize, pty, conns, budget,
                   finishSignal, shutdown, webVars, engVars>>

NextDetector ==
    \/ \E length \in DetLengths : DetectorCheckInput(length)
    \/ BurstTick

SpecDetector == InitRate /\ [][NextDetector]_vars

\* the positions of the events of type ty and severity sev in the list v
EventsOf(v, sev, ty) ==
    {i \in 1..Len(v) : v[i].Type = ty /\ v[i].Severity = sev}

\* C40: Detector.CheckInput on a chunk of length L always returns allowed =
\* true; its violations hold a rapid_input warning iff the rate meter reports
\* a violation, a paste_attempt critical iff the burst meter reports isBurst,
\* and a typing_anomaly warning iff L > 1 and less than 50 ms passed since
\* the previous chunk (since NewDetector for the first chunk); the returned
\* violations, and nothing else, are appended to the event log, each once.
C40_CheckInputVerdicts ==
    [][det'.keystrokeCount # det.keystrokeCount =>
        LET ret == received'[Len(received')]
            L == ret.length
            v == ret.violations
            previous == IF received = <<>> THEN 0
                        ELSE received[Len(received)].t
        IN  /\ ret.allowed = TRUE
            /\ EventsOf(v, "warning", "rapid_input") # {}
                 <=> RateCheckInput(det.events, L, now).violation
            /\ EventsOf(v, "critical", "paste_attempt") # {}
                 <=> CheckBurst(det.burst, L, now).isBurst
            /\ EventsOf(v, "warning", "typing_anomaly") # {}
                 <=> (L > 1 /\ now - previous < anomalyWindow)
            /\ \A ty \in {"rapid_input", "paste_attempt", "typing_anomaly"} :
                 Cardinality({i \in 1..Len(v) : v[i].Type = ty}) <= 1
            /\ \A i \in 1..Len(v) :
                 v[i].Type \in {"rapid_input", "paste_attempt", "typing_anomaly"}
            /\ det'.log = det.log \o v]_vars

\* a call that returned no violation, a call that returned only rapid_input,
\* a call that returned only typing_anomaly and a call that returned all
\* three, every one of them in the log
C40_Witness ==
    /\ \E i \in 1..Len(received) : received[i].violations = <<>>
    /\ \E i \in 1..Len(received) :
          /\ Len(received[i].violations) = 1
          /\ received[i].violations[1].Type = "rapid_input"
    /\ \E i \in 1..Len(received) :
          /\ Len(received[i].violations) = 1
          /\ received[i].violations[1].Type = "typing_anomaly"
    /\ \E i \in 1..Len(received) : Len(received[i].violations) = 3
    /\ Len(det.log) = 5

=============================================================================
